---- MODULE Spec2Model ----
(***************************************************************************)
(* CarbonSync route segmentation and mode-selection engine                 *)
(* (src/src/ai/enhanced_maritime_routes.py).                               *)
(*                                                                         *)
(* Representation.                                                         *)
(*  - Text (place names, port slugs, pattern fragments) is a sequence of   *)
(*    one-character strings, so that lower(), replace(), split(), strip()  *)
(*    and the substring test `in` are computed, not tabulated.             *)
(*  - Longitudes and latitudes are integers in tenths of a degree (the     *)
(*    port table has one decimal): 180 degrees is 1800.                    *)
(*  - Optional[T] is a tuple: None is << >> and a value v is << v >>.      *)
(*  - distance_km values are integers in tenths of a kilometre, the square *)
(*    root rounded down (see _calculate_distance).                         *)
(***************************************************************************)
EXTENDS Integers, Sequences, FiniteSets, TLC

VARIABLES
  ports,                \* PortFinder.MAJOR_PORTS, the port registry
  pc,                   \* position of the process in __main__ / calculate_enhanced_route
  argv,                 \* sys.argv[2], sys.argv[3], sys.argv[4] of the invocation
  sea_route_resolution, \* EnhancedRouteCalculator.sea_route_resolution
  origin_coord,         \* Optional[Coordinate] returned by the first geocoding call
  destination_coord,    \* Optional[Coordinate] returned by the second geocoding call
  route_analysis,       \* Optional[dict] returned by _analyze_route_requirements
  frame,                \* Optional: locals of the builder waiting in get_maritime_route
  route,                \* Optional[EnhancedRoute] returned by calculate_enhanced_route
  stdout,               \* lines printed on standard output, in order
  exit_code,            \* Optional[int]: the process exit status
  geocode_log,          \* calls of get_coordinates in order: place name and geocoder response
  provider_log,         \* invocations of get_maritime_route, in call order
  norm_in, norm_out,    \* argument and result of normalize_longitude_crossing
  lookup, watched,      \* the latest find_nearest_port call, and an earlier one kept for comparison
  direct_call           \* Optional: a direct call of one method, its arguments and what it returned

vars == << ports, pc, argv, sea_route_resolution, origin_coord, destination_coord,
           route_analysis, frame, route, stdout, exit_code, geocode_log, provider_log,
           norm_in, norm_out, lookup, watched, direct_call >>

(***************************************************************************)
(* Optional values                                                         *)
(***************************************************************************)
None == << >>

Some(v) == << v >>

IsNone(x) == x = << >>

Val(x) == x[1]

(***************************************************************************)
(* Text operations (Python str methods used by the source)                 *)
(***************************************************************************)
UpperCaseLetters ==
  <<"A","B","C","D","E","F","G","H","I","J","K","L","M",
    "N","O","P","Q","R","S","T","U","V","W","X","Y","Z">>

LowerCaseLetters ==
  <<"a","b","c","d","e","f","g","h","i","j","k","l","m",
    "n","o","p","q","r","s","t","u","v","w","x","y","z">>

\* str.lower() on one character (the letters A-Z; every other character of
\* the model's texts is already lower case or has no case).
LowerChar(c) ==
  IF \E i \in 1..Len(UpperCaseLetters) : UpperCaseLetters[i] = c
  THEN LowerCaseLetters[CHOOSE i \in 1..Len(UpperCaseLetters) : UpperCaseLetters[i] = c]
  ELSE c

\* str.lower()
Lower(s) == [i \in 1..Len(s) |-> LowerChar(s[i])]

\* str.replace(" ", "_")
ReplaceSpaces(s) == [i \in 1..Len(s) |-> IF s[i] = " " THEN "_" ELSE s[i]]

\* Python's `p in s` on strings: p occurs as a contiguous substring of s
Contains(p, s) ==
  \E i \in 0..(Len(s) - Len(p)) : SubSeq(s, i + 1, i + Len(p)) = p

\* str.strip(): leading and trailing blanks removed
RECURSIVE Strip(_)
Strip(s) ==
  IF s = << >> THEN s
  ELSE IF Head(s) = " " THEN Strip(Tail(s))
  ELSE IF s[Len(s)] = " " THEN Strip(SubSeq(s, 1, Len(s) - 1))
  ELSE s

\* [p.strip() for p in s.split(',')][-1]: the text after the last comma, stripped
LastCommaPart(s) ==
  LET commas == {i \in 1..Len(s) : s[i] = ","}
      last   == IF commas = {} THEN 0
                ELSE CHOOSE i \in commas : \A j \in commas : j <= i
  IN Strip(SubSeq(s, last + 1, Len(s)))

(***************************************************************************)
(* Port registry.  MAJOR_PORTS is an extract of the 679-entry table of the *)
(* source, in the source's order.  It holds, for every coordinate of       *)
(* GeoCoords, the port the full table yields for each lookup a route       *)
(* computation makes (nearest port, and nearest port outside the origin    *)
(* port's country); the slugs that make the names of PlaceNames port       *)
(* cities; and the pairs of entries with identical coordinates             *)
(* (felixstowe/harwich in one country, haparanda/tornio in two).           *)
(***************************************************************************)
MAJOR_PORTS ==
  << [slug |-> <<"r","o","t","t","e","r","d","a","m">>, name |-> <<"R","o","t","t","e","r","d","a","m">>,
      lon |-> 45, lat |-> 519, country |-> "Netherlands"],
     [slug |-> <<"b","u","e","n","a","v","e","n","t","u","r","a">>, name |-> <<"B","u","e","n","a","v","e","n","t","u","r","a">>,
      lon |-> -770, lat |-> 39, country |-> "Colombia"],
     [slug |-> <<"f","e","l","i","x","s","t","o","w","e">>, name |-> <<"F","e","l","i","x","s","t","o","w","e">>,
      lon |-> 13, lat |-> 519, country |-> "UK"],
     [slug |-> <<"t","o","k","y","o">>, name |-> <<"T","o","k","y","o">>,
      lon |-> 1397, lat |-> 357, country |-> "Japan"],
     [slug |-> <<"n","e","w","_","o","r","l","e","a","n","s">>, name |-> <<"N","e","w"," ","O","r","l","e","a","n","s">>,
      lon |-> -901, lat |-> 299, country |-> "USA"],
     [slug |-> <<"m","i","a","m","i">>, name |-> <<"M","i","a","m","i">>,
      lon |-> -802, lat |-> 258, country |-> "USA"],
     [slug |-> <<"s","u","v","a">>, name |-> <<"S","u","v","a">>,
      lon |-> 1784, lat |-> -181, country |-> "Fiji"],
     [slug |-> <<"p","o","r","t","_","v","i","l","a">>, name |-> <<"P","o","r","t"," ","V","i","l","a">>,
      lon |-> 1683, lat |-> -177, country |-> "Vanuatu"],
     [slug |-> <<"m","a","r","a","c","a","i","b","o">>, name |-> <<"M","a","r","a","c","a","i","b","o">>,
      lon |-> -716, lat |-> 107, country |-> "Venezuela"],
     [slug |-> <<"h","a","p","a","r","a","n","d","a">>, name |-> <<"H","a","p","a","r","a","n","d","a">>,
      lon |-> 241, lat |-> 658, country |-> "Sweden"],
     [slug |-> <<"t","o","r","n","i","o">>, name |-> <<"T","o","r","n","i","o">>,
      lon |-> 241, lat |-> 658, country |-> "Finland"],
     [slug |-> <<"h","a","r","w","i","c","h">>, name |-> <<"H","a","r","w","i","c","h">>,
      lon |-> 13, lat |-> 519, country |-> "UK"],
     [slug |-> <<"h","a","v","a","n","a">>, name |-> <<"H","a","v","a","n","a">>,
      lon |-> -824, lat |-> 231, country |-> "Cuba"],
     [slug |-> <<"m","a","r","i","e","l">>, name |-> <<"M","a","r","i","e","l">>,
      lon |-> -828, lat |-> 229, country |-> "Cuba"],
     [slug |-> <<"f","r","e","e","p","o","r","t">>, name |-> <<"F","r","e","e","p","o","r","t">>,
      lon |-> -787, lat |-> 265, country |-> "Bahamas"] >>

(***************************************************************************)
(* PortFinder                                                              *)
(***************************************************************************)
\* (coord.lon - port.lon)**2 + (coord.lat - port.lat)**2: the square of the
\* distance find_nearest_port compares (the square root is monotone, so the
\* comparison `distance < min_distance` is made on the squares).
PlanarDistanceSq(coord, port_data) ==
  (coord.lon - port_data.lon) * (coord.lon - port_data.lon)
    + (coord.lat - port_data.lat) * (coord.lat - port_data.lat)

\* `if exclude_country and port_data['country'] == exclude_country: continue`
Excluded(port_data, exclude_country) ==
  /\ ~IsNone(exclude_country)
  /\ Val(exclude_country) # ""
  /\ port_data.country = Val(exclude_country)

\* Fault variant of the loop of find_nearest_port: `distance <= min_distance`,
\* so that the last of several ports at the same distance is kept.
RECURSIVE NearestLoopLastWins(_, _, _, _, _)
NearestLoopLastWins(registry, i, coord, exclude_country, nearest_port) ==
  IF i > Len(registry) THEN nearest_port
  ELSE LET port_data == registry[i]
       IN IF Excluded(port_data, exclude_country)
          THEN NearestLoopLastWins(registry, i + 1, coord, exclude_country, nearest_port)
          ELSE IF \/ IsNone(nearest_port)
                  \/ PlanarDistanceSq(coord, port_data)
                       <= PlanarDistanceSq(coord, Val(nearest_port))
               THEN NearestLoopLastWins(registry, i + 1, coord, exclude_country,
                                        Some(port_data))
               ELSE NearestLoopLastWins(registry, i + 1, coord, exclude_country,
                                        nearest_port)

\* The loop of find_nearest_port from registry position i on; nearest_port is
\* the Optional port kept so far (min_distance is its distance, or infinity).
RECURSIVE NearestLoop(_, _, _, _, _)
NearestLoop(registry, i, coord, exclude_country, nearest_port) ==
  IF i > Len(registry) THEN nearest_port
  ELSE LET port_data == registry[i]
       IN IF Excluded(port_data, exclude_country)
          THEN NearestLoop(registry, i + 1, coord, exclude_country, nearest_port)
          ELSE IF \/ IsNone(nearest_port)
                  \/ PlanarDistanceSq(coord, port_data)
                       < PlanarDistanceSq(coord, Val(nearest_port))
               THEN NearestLoop(registry, i + 1, coord, exclude_country, Some(port_data))
               ELSE NearestLoop(registry, i + 1, coord, exclude_country, nearest_port)

\* Fault variant of find_nearest_port: the registry is not read-only; it is
\* iterated in reverse order once a call has been made.
find_nearest_port_reordered(coord, exclude_country) ==
  IF IsNone(lookup)
  THEN NearestLoop(ports, 1, coord, exclude_country, None)
  ELSE NearestLoop([i \in 1..Len(ports) |-> ports[Len(ports) + 1 - i]], 1,
                   coord, exclude_country, None)

\* PortFinder.find_nearest_port: Optional[port record]
find_nearest_port(coord, exclude_country) ==
  NearestLoop(ports, 1, coord, exclude_country, None)

\* PortFinder.is_port_city
is_port_city(place_name) ==
  LET place_lower == ReplaceSpaces(Lower(place_name))
  IN \E i \in 1..Len(ports) :
        \/ Contains(ports[i].slug, place_lower)
        \/ Contains(place_lower, ports[i].slug)

(***************************************************************************)
(* Longitude normalizer.  Raw coordinates are [lon, lat] lists: << lon,    *)
(* lat >>.                                                                 *)
(***************************************************************************)
\* Fault variant of the first loop: `while lon >= 180`, so that 180 itself is
\* wrapped to -180.
RECURSIVE WrapDownInclusive(_)
WrapDownInclusive(lon) == IF lon >= 1800 THEN WrapDownInclusive(lon - 3600) ELSE lon

\* while lon > 180: lon -= 360
RECURSIVE WrapDown(_)
WrapDown(lon) == IF lon > 1800 THEN WrapDown(lon - 3600) ELSE lon

\* while lon < -180: lon += 360
RECURSIVE WrapUp(_)
WrapUp(lon) == IF lon < -1800 THEN WrapUp(lon + 3600) ELSE lon

normalize_longitude_crossing(coordinates) ==
  IF Len(coordinates) < 2 THEN coordinates
  ELSE [i \in 1..Len(coordinates) |->
          << WrapUp(WrapDown(coordinates[i][1])), coordinates[i][2] >>]

(***************************************************************************)
(* Maritime path provider (SeaRoute jar run as a subprocess).  env is what *)
(* the environment does at one invocation:                                 *)
(*   [kind |-> "jar_missing"]   searoute.jar does not exist                *)
(*   [kind |-> "timeout"]       subprocess.run raises TimeoutExpired       *)
(*   [kind |-> "exception"]     any other exception inside the try block   *)
(*   [kind |-> "completed", returncode, output_exists, features]           *)
(*       the subprocess ended; features is data.get('features'), a list of *)
(*       geometries.  The GeoJSON member `coordinates` is named after its  *)
(*       shape: [type |-> "LineString", coordinates] is a list of points,  *)
(*       [type |-> "MultiLineString", parts] a list of lists of points,    *)
(*       [type |-> "Point", point] one point.                              *)
(***************************************************************************)
\* coordinates.extend(segment) for each segment of a MultiLineString
RECURSIVE Flatten(_)
Flatten(parts) ==
  IF parts = << >> THEN << >> ELSE Head(parts) \o Flatten(Tail(parts))

\* [[from_lon, from_lat], [to_lon, to_lat]]
StraightLine(from, to) == << << from.lon, from.lat >>, << to.lon, to.lat >> >>

\* the value of `coordinates` after the geometry-type test: Optional[list]
GeometryCoordinates(geometry) ==
  IF geometry.type = "MultiLineString" THEN Some(Flatten(geometry.parts))
  ELSE IF geometry.type = "LineString" THEN Some(geometry.coordinates)
  ELSE None

\* Fault variant of get_maritime_route: no straight-line fallback after the
\* try block (an empty list is returned, as by the older provider of
\* maritime_routes.py, which returns None).
get_maritime_route_without_fallback(from, to, resolution, env) ==
  IF env.kind = "jar_missing" THEN StraightLine(from, to)
  ELSE IF env.kind \in {"timeout", "exception"} THEN << >>
  ELSE IF env.returncode = 0 /\ env.output_exists /\ env.features # << >>
       THEN LET coordinates == GeometryCoordinates(env.features[1])
            IN IF ~IsNone(coordinates) /\ Val(coordinates) # << >>
               THEN normalize_longitude_crossing(Val(coordinates))
               ELSE << >>
       ELSE << >>

get_maritime_route(from, to, resolution, env) ==
  IF env.kind = "jar_missing" THEN StraightLine(from, to)
  ELSE IF env.kind \in {"timeout", "exception"} THEN StraightLine(from, to)
  ELSE IF env.returncode = 0 /\ env.output_exists /\ env.features # << >>
       THEN LET coordinates == GeometryCoordinates(env.features[1])
            IN IF ~IsNone(coordinates) /\ Val(coordinates) # << >>
               THEN normalize_longitude_crossing(Val(coordinates))
               ELSE StraightLine(from, to)
       ELSE StraightLine(from, to)

\* what get_maritime_route prints on standard output
get_maritime_route_prints(env) ==
  IF env.kind = "jar_missing" THEN << [text |-> "Warning: SeaRoute not found"] >>
  ELSE IF env.kind = "timeout" THEN << [text |-> "SeaRoute calculation timed out"] >>
  ELSE IF env.kind = "exception" THEN << [text |-> "Error running SeaRoute"] >>
  ELSE << >>

(***************************************************************************)
(* Geocoding collaborator (Nominatim).  response is what the service does  *)
(* at one call: [kind |-> "ok", coord], [kind |-> "empty"] (no result) or  *)
(* [kind |-> "error"] (any exception: network, HTTP status, malformed).    *)
(***************************************************************************)
\* CoordinateExtractor.get_coordinates: Optional[Coordinate]
get_coordinates(place_name, response) ==
  IF response.kind = "ok" THEN Some(response.coord) ELSE None

\* what get_coordinates prints on standard output
get_coordinates_prints(place_name, response) ==
  IF response.kind = "error"
  THEN << [text |-> "Error geocoding", place |-> place_name] >>
  ELSE << >>

(***************************************************************************)
(* Route requirement analyzer                                              *)
(***************************************************************************)
country_patterns ==
  << << <<"c","o","l","o","m","b","i","a">>,
        << <<"c","o","l","o","m","b","i","a">>,
           <<"b","o","g","o","t","á">>,
           <<"m","e","d","e","l","l","i","n">>,
           <<"m","e","d","e","l","l","í","n">>,
           <<"c","a","l","i">>,
           <<"b","a","r","r","a","n","q","u","i","l","l","a">>,
           <<"c","a","r","t","a","g","e","n","a">> >> >>,
     << <<"u","s","a">>,
        << <<"u","s","a">>,
           <<"u","n","i","t","e","d"," ","s","t","a","t","e","s">>,
           <<"m","i","a","m","i">>,
           <<"n","e","w"," ","y","o","r","k">>,
           <<"l","o","s"," ","a","n","g","e","l","e","s">>,
           <<"c","h","i","c","a","g","o">>,
           <<"d","e","n","v","e","r">>,
           <<"s","a","l","t"," ","l","a","k","e"," ","c","i","t","y">> >> >>,
     << <<"b","r","a","z","i","l">>,
        << <<"b","r","a","z","i","l">>,
           <<"b","r","a","s","i","l">>,
           <<"s","ã","o"," ","p","a","u","l","o">>,
           <<"r","i","o"," ","d","e"," ","j","a","n","e","i","r","o">>,
           <<"s","a","n","t","o","s">>,
           <<"s","a","l","v","a","d","o","r">> >> >>,
     << <<"s","p","a","i","n">>,
        << <<"s","p","a","i","n">>,
           <<"e","s","p","a","ñ","a">>,
           <<"m","a","d","r","i","d">>,
           <<"b","a","r","c","e","l","o","n","a">>,
           <<"v","a","l","e","n","c","i","a">>,
           <<"s","e","v","i","l","l","a">> >> >>,
     << <<"u","k">>,
        << <<"u","k">>,
           <<"u","n","i","t","e","d"," ","k","i","n","g","d","o","m">>,
           <<"l","o","n","d","o","n">>,
           <<"m","a","n","c","h","e","s","t","e","r">>,
           <<"l","i","v","e","r","p","o","o","l">>,
           <<"g","l","a","s","g","o","w">> >> >>,
     << <<"g","e","r","m","a","n","y">>,
        << <<"g","e","r","m","a","n","y">>,
           <<"d","e","u","t","s","c","h","l","a","n","d">>,
           <<"h","a","m","b","u","r","g">>,
           <<"b","e","r","l","i","n">>,
           <<"m","u","n","i","c","h">>,
           <<"f","r","a","n","k","f","u","r","t">> >> >>,
     << <<"c","h","i","n","a">>,
        << <<"c","h","i","n","a">>,
           <<"s","h","a","n","g","h","a","i">>,
           <<"b","e","i","j","i","n","g">>,
           <<"g","u","a","n","g","z","h","o","u">>,
           <<"s","h","e","n","z","h","e","n">> >> >>,
     << <<"c","u","b","a">>,
        << <<"c","u","b","a">>,
           <<"h","a","v","a","n","a">>,
           <<"h","a","b","a","n","a">> >> >> >>

water_crossings ==
  { << <<"u","s","a">>, <<"c","u","b","a">> >>,
    << <<"u","s","a">>, <<"j","a","m","a","i","c","a">> >>,
    << <<"u","s","a">>, <<"b","a","h","a","m","a","s">> >>,
    << <<"u","k">>, <<"u","s","a">> >>,
    << <<"g","e","r","m","a","n","y">>, <<"u","s","a">> >>,
    << <<"s","p","a","i","n">>, <<"u","s","a">> >>,
    << <<"u","k">>, <<"b","r","a","z","i","l">> >>,
    << <<"g","e","r","m","a","n","y">>, <<"b","r","a","z","i","l">> >>,
    << <<"s","p","a","i","n">>, <<"b","r","a","z","i","l">> >>,
    << <<"c","h","i","n","a">>, <<"u","s","a">> >>,
    << <<"c","h","i","n","a">>, <<"u","k">> >>,
    << <<"c","h","i","n","a">>, <<"g","e","r","m","a","n","y">> >>,
    << <<"j","a","p","a","n">>, <<"u","s","a">> >>,
    << <<"j","a","p","a","n">>, <<"u","k">> >>,
    << <<"a","u","s","t","r","a","l","i","a">>, <<"u","s","a">> >>,
    << <<"a","u","s","t","r","a","l","i","a">>, <<"u","k">> >>,
    << <<"a","u","s","t","r","a","l","i","a">>, <<"c","h","i","n","a">> >> }

continental_groups ==
  { { <<"u","s","a">>,
      <<"c","a","n","a","d","a">>,
      <<"m","e","x","i","c","o">> },
    { <<"c","o","l","o","m","b","i","a">>,
      <<"b","r","a","z","i","l">>,
      <<"a","r","g","e","n","t","i","n","a">>,
      <<"c","h","i","l","e">>,
      <<"p","e","r","u">>,
      <<"e","c","u","a","d","o","r">>,
      <<"v","e","n","e","z","u","e","l","a">> },
    { <<"u","k">>,
      <<"g","e","r","m","a","n","y">>,
      <<"f","r","a","n","c","e">>,
      <<"s","p","a","i","n">>,
      <<"i","t","a","l","y">>,
      <<"n","e","t","h","e","r","l","a","n","d","s">>,
      <<"b","e","l","g","i","u","m">> },
    { <<"c","h","i","n","a">>,
      <<"j","a","p","a","n">>,
      <<"i","n","d","i","a">>,
      <<"s","o","u","t","h"," ","k","o","r","e","a">>,
      <<"s","i","n","g","a","p","o","r","e">>,
      <<"t","h","a","i","l","a","n","d">> } }

\* Python truthiness of an Optional[str]: neither None nor ""
Truthy(s) == ~IsNone(s) /\ Val(s) # << >>

_extract_country(place_name) ==
  LET place_lower == Lower(place_name)
      matching == {i \in 1..Len(country_patterns) :
                     \E j \in 1..Len(country_patterns[i][2]) :
                        Contains(country_patterns[i][2][j], place_lower)}
  IN IF matching # {}
     THEN Some(country_patterns[CHOOSE i \in matching : \A k \in matching : i <= k][1])
     ELSE IF Contains(<<",">>, place_name)
          THEN Some(LastCommaPart(place_name))
          ELSE None

\* Fault variant of _requires_water_crossing: the country pair is looked up
\* in the table in the given order only.
_requires_water_crossing_one_order(origin, destination, origin_country, destination_country) ==
  IF Truthy(origin_country) /\ Truthy(destination_country)
  THEN << Lower(Val(origin_country)), Lower(Val(destination_country)) >>
         \in water_crossings
  ELSE IF (IF origin.lon - destination.lon >= 0
           THEN origin.lon - destination.lon
           ELSE destination.lon - origin.lon) > 600
       THEN TRUE
       ELSE /\ origin.lat > 200 /\ origin.lat < 300
            /\ origin.lon > -900 /\ origin.lon < -750
            /\ destination.lat > 200 /\ destination.lat < 300
            /\ destination.lon > -850 /\ destination.lon < -700

\* Fault variant of _requires_water_crossing: a resolved pair the table does
\* not list falls through to the longitude and bounding-box heuristics.
_requires_water_crossing_heuristics_after_table(origin, destination, origin_country, destination_country) ==
  IF /\ Truthy(origin_country) /\ Truthy(destination_country)
     /\ \/ << Lower(Val(origin_country)), Lower(Val(destination_country)) >>
              \in water_crossings
        \/ << Lower(Val(destination_country)), Lower(Val(origin_country)) >>
              \in water_crossings
  THEN TRUE
  ELSE IF (IF origin.lon - destination.lon >= 0
           THEN origin.lon - destination.lon
           ELSE destination.lon - origin.lon) > 600
       THEN TRUE
       ELSE /\ origin.lat > 200 /\ origin.lat < 300
            /\ origin.lon > -900 /\ origin.lon < -750
            /\ destination.lat > 200 /\ destination.lat < 300
            /\ destination.lon > -850 /\ destination.lon < -700

\* the country table when both countries are resolved, else the longitude
\* difference, else the Caribbean/Gulf boxes
_requires_water_crossing(origin, destination, origin_country, destination_country) ==
  IF Truthy(origin_country) /\ Truthy(destination_country)
  THEN LET country_pair == << Lower(Val(origin_country)), Lower(Val(destination_country)) >>
           reverse_pair == << Lower(Val(destination_country)), Lower(Val(origin_country)) >>
       IN country_pair \in water_crossings \/ reverse_pair \in water_crossings
  ELSE IF (IF origin.lon - destination.lon >= 0
           THEN origin.lon - destination.lon
           ELSE destination.lon - origin.lon) > 600
       THEN TRUE
       ELSE IF /\ origin.lat > 200 /\ origin.lat < 300
               /\ origin.lon > -900 /\ origin.lon < -750
               /\ destination.lat > 200 /\ destination.lat < 300
               /\ destination.lon > -850 /\ destination.lon < -700
            THEN TRUE
            ELSE FALSE

_are_continentally_connected(country1, country2) ==
  IF ~Truthy(country1) \/ ~Truthy(country2) THEN FALSE
  ELSE \E countries \in continental_groups :
          Lower(Val(country1)) \in countries /\ Lower(Val(country2)) \in countries

\* Fault variant of _determine_optimal_mode: Rule 1 (domestic under 1500 km)
\* is missing.
_determine_optimal_mode_without_rule_1(is_domestic, distance_km, requires_water_crossing, origin_is_port, destination_is_port, origin_country, destination_country) ==
  IF requires_water_crossing
  THEN (IF origin_is_port /\ destination_is_port THEN "sea_only" ELSE "multimodal")
  ELSE IF distance_km < 800 THEN "land_only"
  ELSE IF origin_is_port /\ destination_is_port /\ distance_km > 1000 THEN "sea_only"
  ELSE IF _are_continentally_connected(origin_country, destination_country)
       THEN "land_only" ELSE "multimodal"

\* Fault variant of _determine_optimal_mode: Rule 3 takes a distance of
\* exactly 800 km as short.
_determine_optimal_mode_short_inclusive(is_domestic, distance_km, requires_water_crossing, origin_is_port, destination_is_port, origin_country, destination_country) ==
  IF is_domestic /\ distance_km < 1500 THEN "land_only"
  ELSE IF requires_water_crossing
       THEN (IF origin_is_port /\ destination_is_port THEN "sea_only" ELSE "multimodal")
  ELSE IF distance_km <= 800 THEN "land_only"
  ELSE IF origin_is_port /\ destination_is_port /\ distance_km > 1000 THEN "sea_only"
  ELSE IF distance_km > 2500
       THEN (IF _are_continentally_connected(origin_country, destination_country)
             THEN "land_only" ELSE "multimodal")
  ELSE IF distance_km <= 2500
       THEN (IF _are_continentally_connected(origin_country, destination_country)
             THEN "land_only" ELSE "multimodal")
  ELSE "multimodal"

\* Fault variant of _determine_optimal_mode: Rule 4 is content with one of
\* the two endpoints being a port.
_determine_optimal_mode_sea_for_either_port(is_domestic, distance_km, requires_water_crossing, origin_is_port, destination_is_port, origin_country, destination_country) ==
  IF is_domestic /\ distance_km < 1500 THEN "land_only"
  ELSE IF requires_water_crossing
       THEN (IF origin_is_port /\ destination_is_port THEN "sea_only" ELSE "multimodal")
  ELSE IF distance_km < 800 THEN "land_only"
  ELSE IF (origin_is_port \/ destination_is_port) /\ distance_km > 1000 THEN "sea_only"
  ELSE IF distance_km > 2500
       THEN (IF _are_continentally_connected(origin_country, destination_country)
             THEN "land_only" ELSE "multimodal")
  ELSE IF distance_km <= 2500
       THEN (IF _are_continentally_connected(origin_country, destination_country)
             THEN "land_only" ELSE "multimodal")
  ELSE "multimodal"

\* the rule cascade of _determine_optimal_mode, rules 1 to 6 and the default
_determine_optimal_mode(is_domestic, distance_km, requires_water_crossing, origin_is_port, destination_is_port, origin_country, destination_country) ==
  IF is_domestic /\ distance_km < 1500 THEN "land_only"
  ELSE IF requires_water_crossing
       THEN (IF origin_is_port /\ destination_is_port THEN "sea_only" ELSE "multimodal")
  ELSE IF distance_km < 800 THEN "land_only"
  ELSE IF origin_is_port /\ destination_is_port /\ distance_km > 1000 THEN "sea_only"
  ELSE IF distance_km > 2500
       THEN (IF _are_continentally_connected(origin_country, destination_country)
             THEN "land_only" ELSE "multimodal")
  ELSE IF distance_km <= 2500
       THEN (IF _are_continentally_connected(origin_country, destination_country)
             THEN "land_only" ELSE "multimodal")
  ELSE "multimodal"

\* Fault variant of the return reached: Rule 6 stops short of 2500 km.
_determine_optimal_mode_return_medium_exclusive(is_domestic, distance_km, requires_water_crossing, origin_is_port, destination_is_port, origin_country, destination_country) ==
  IF is_domestic /\ distance_km < 1500 THEN "Rule 1"
  ELSE IF requires_water_crossing THEN "Rule 2"
  ELSE IF distance_km < 800 THEN "Rule 3"
  ELSE IF origin_is_port /\ destination_is_port /\ distance_km > 1000 THEN "Rule 4"
  ELSE IF distance_km > 2500 THEN "Rule 5"
  ELSE IF distance_km < 2500 THEN "Rule 6"
  ELSE "Default"

\* the rule of _determine_optimal_mode whose return statement the call
\* reaches, named as the source's comments name it; "Default" is the final
\* `return 'multimodal'`
_determine_optimal_mode_return(is_domestic, distance_km, requires_water_crossing, origin_is_port, destination_is_port, origin_country, destination_country) ==
  IF is_domestic /\ distance_km < 1500 THEN "Rule 1"
  ELSE IF requires_water_crossing THEN "Rule 2"
  ELSE IF distance_km < 800 THEN "Rule 3"
  ELSE IF origin_is_port /\ destination_is_port /\ distance_km > 1000 THEN "Rule 4"
  ELSE IF distance_km > 2500 THEN "Rule 5"
  ELSE IF distance_km <= 2500 THEN "Rule 6"
  ELSE "Default"

\* Coordinates the geocoding collaborator answers with, in tenths of a
\* degree: Miami, Havana, Bogota, Mobile (Alabama), and Suva given east of the
\* antimeridian (181.6 degrees, not wrapped).
GeoCoords ==
  << [lon |-> -802, lat |-> 258],
     [lon |-> -824, lat |-> 231],
     [lon |-> -741, lat |-> 46],
     [lon |-> -880, lat |-> 307],
     [lon |-> 1816, lat |-> -181] >>

\* int(_calculate_haversine_distance(GeoCoords[i], GeoCoords[j])): the value
\* of the source's great-circle formula (R = 6371 km) in whole kilometres,
\* tabulated because it is transcendental.  No entry is within one
\* kilometre of a threshold of _determine_optimal_mode.
HaversineKm ==
  << << 0, 373, 2445, 937, 11665 >>,
     << 373, 0, 2241, 1010, 11376 >>,
     << 2445, 2241, 0, 3246, 11676 >>,
     << 937, 1010, 3246, 0, 11059 >>,
     << 11665, 11376, 11676, 11059, 0 >> >>

_calculate_haversine_distance(coord1, coord2) ==
  HaversineKm[CHOOSE i \in 1..Len(GeoCoords) : GeoCoords[i] = coord1]
             [CHOOSE j \in 1..Len(GeoCoords) : GeoCoords[j] = coord2]

_analyze_route_requirements(origin_name, destination_name, origin, destination) ==
  LET origin_is_port      == is_port_city(origin_name)
      destination_is_port == is_port_city(destination_name)
      direct_distance_km  == _calculate_haversine_distance(origin, destination)
      origin_country      == _extract_country(origin_name)
      destination_country == _extract_country(destination_name)
      is_domestic ==
        /\ Truthy(origin_country)
        /\ Truthy(destination_country)
        /\ Lower(Val(origin_country)) = Lower(Val(destination_country))
      requires_water_crossing ==
        _requires_water_crossing(origin, destination, origin_country, destination_country)
  IN [ recommended_mode |->
         _determine_optimal_mode(is_domestic, direct_distance_km, requires_water_crossing,
                                 origin_is_port, destination_is_port,
                                 origin_country, destination_country),
       is_domestic |-> is_domestic,
       direct_distance_km |-> direct_distance_km,
       requires_water_crossing |-> requires_water_crossing,
       origin_is_port |-> origin_is_port,
       destination_is_port |-> destination_is_port,
       origin_country |-> origin_country,
       destination_country |-> destination_country ]

(***************************************************************************)
(* Coordinate model                                                        *)
(***************************************************************************)
\* SegmentType members and their .value
SEA == "SegmentType.SEA"

LAND == "SegmentType.LAND"

SegmentTypeValue(type) == IF type = SEA THEN "sea" ELSE "land"

Coordinate(lon, lat) == [lon |-> lon, lat |-> lat]

RouteSegment(type, origin, destination, waypoints, description, distance_km) ==
  [ type |-> type, origin |-> origin, destination |-> destination,
    waypoints |-> waypoints, description |-> description,
    distance_km |-> distance_km ]

EnhancedRoute(segment_list, total_distance_km, total_waypoints, route_description) ==
  [ segments |-> segment_list, total_distance_km |-> total_distance_km,
    total_waypoints |-> total_waypoints, route_description |-> route_description ]

\* [Coordinate(lon=coord[0], lat=coord[1]) for coord in waypoints_raw]
ToCoordinates(waypoints_raw) ==
  [i \in 1..Len(waypoints_raw) |-> Coordinate(waypoints_raw[i][1], waypoints_raw[i][2])]

\* integer square root, rounded down, by bisection on lo..hi
RECURSIVE ISqrtBetween(_, _, _)
ISqrtBetween(n, lo, hi) ==
  IF lo >= hi THEN lo
  ELSE LET mid == (lo + hi + 1) \div 2
       IN IF mid * mid <= n THEN ISqrtBetween(n, mid, hi)
                            ELSE ISqrtBetween(n, lo, mid - 1)

ISqrt(n) == ISqrtBetween(n, 0, 46340)

\* ((dx * 111) ** 2 + (dy * 111) ** 2) ** 0.5 for one pair of waypoints, in
\* tenths of a kilometre (dx, dy are in tenths of a degree):
\* 111 * sqrt(dx**2 + dy**2), the root rounded down.
LegDistance(a, b) ==
  LET dx == b.lon - a.lon
      dy == b.lat - a.lat
  IN 111 * ISqrt(dx * dx + dy * dy)

RECURSIVE SumLegs(_, _)
SumLegs(waypoints, i) ==
  IF i >= Len(waypoints) THEN 0
  ELSE LegDistance(waypoints[i], waypoints[i + 1]) + SumLegs(waypoints, i + 1)

_calculate_distance(waypoints) ==
  IF Len(waypoints) < 2 THEN 0 ELSE SumLegs(waypoints, 1)

(***************************************************************************)
(* Segment builders.  Each multimodal builder first looks its ports up,    *)
(* then calls get_maritime_route, then builds its segments.  The lookups   *)
(* are the operators *_ports below; the builder takes their results        *)
(* (origin_port_data, destination_port_data) and the value the             *)
(* get_maritime_route call returned (waypoints_raw / sea_waypoints_raw).   *)
(* A builder that returns before that call does not read it.  A            *)
(* description is the tuple of the pieces of the source's f-string.        *)
(***************************************************************************)
\* the second definition of _create_land_route (the one in effect)
_create_land_route(origin, destination, origin_name, destination_name) ==
  LET waypoints == << origin, destination >>
  IN << RouteSegment(LAND, origin, destination, waypoints,
                     << "Direct land route: ", origin_name, " -> ", destination_name >>,
                     _calculate_distance(waypoints)) >>

_create_sea_route(origin, destination, origin_name, destination_name, waypoints_raw) ==
  IF waypoints_raw = << >> THEN << >>
  ELSE LET waypoints == ToCoordinates(waypoints_raw)
       IN << RouteSegment(SEA, origin, destination, waypoints,
                          << "Sea route: ", origin_name, " -> ", destination_name >>,
                          _calculate_distance(waypoints)) >>

\* Coordinate(port_data['lon'], port_data['lat'])
PortCoordinate(port_data) == Coordinate(port_data.lon, port_data.lat)

\* Fault variant of the lookups of _create_land_sea_land_route: the
\* destination port is looked up without excluding the origin port's country.
land_sea_land_ports_without_exclusion(origin, destination) ==
  LET origin_port_data == find_nearest_port(origin, None)
  IN IF IsNone(origin_port_data)
     THEN [raised |-> TRUE, origin_port_data |-> None, destination_port_data |-> None]
     ELSE [raised |-> FALSE,
           origin_port_data |-> origin_port_data,
           destination_port_data |-> find_nearest_port(destination, None)]

\* The two lookups of _create_land_sea_land_route.  [raised |-> TRUE] stands
\* for the AttributeError of origin_port_data.get('country') when
\* origin_port_data is None.
land_sea_land_ports(origin, destination) ==
  LET origin_port_data == find_nearest_port(origin, None)
  IN IF IsNone(origin_port_data)
     THEN [raised |-> TRUE, origin_port_data |-> None, destination_port_data |-> None]
     ELSE [raised |-> FALSE,
           origin_port_data |-> origin_port_data,
           destination_port_data |->
             find_nearest_port(destination, Some(Val(origin_port_data).country))]

\* _create_land_sea_land_route from the test of its two lookups on
_create_land_sea_land_route(origin, destination, origin_name, destination_name, origin_port_data, destination_port_data, sea_waypoints_raw) ==
  IF IsNone(origin_port_data) \/ IsNone(destination_port_data)
  THEN _create_land_route(origin, destination, origin_name, destination_name)
  ELSE
    LET origin_port == PortCoordinate(Val(origin_port_data))
        destination_port == PortCoordinate(Val(destination_port_data))
        land_waypoints_1 == << origin, origin_port >>
        segment_1 ==
          << RouteSegment(LAND, origin, origin_port, land_waypoints_1,
               << "Land: ", origin_name, " -> ", Val(origin_port_data).name >>,
               _calculate_distance(land_waypoints_1)) >>
        sea_waypoints == ToCoordinates(sea_waypoints_raw)
        segment_2 ==
          IF sea_waypoints_raw = << >> THEN << >>
          ELSE << RouteSegment(SEA, origin_port, destination_port, sea_waypoints,
                    << "Sea: ", Val(origin_port_data).name, " -> ",
                       Val(destination_port_data).name >>,
                    _calculate_distance(sea_waypoints)) >>
        land_waypoints_2 == << destination_port, destination >>
        segment_3 ==
          << RouteSegment(LAND, destination_port, destination, land_waypoints_2,
               << "Land: ", Val(destination_port_data).name, " -> ", destination_name >>,
               _calculate_distance(land_waypoints_2)) >>
    IN segment_1 \o segment_2 \o segment_3

\* Fault variant of the lookup of _create_sea_land_route: the port nearest
\* to the origin is looked up.
sea_land_ports_near_origin(origin, destination) ==
  [raised |-> FALSE, origin_port_data |-> None,
   destination_port_data |-> find_nearest_port(origin, None)]

\* the lookup of _create_sea_land_route
sea_land_ports(origin, destination) ==
  [raised |-> FALSE, origin_port_data |-> None,
   destination_port_data |-> find_nearest_port(destination, None)]

\* _create_sea_land_route from the test of its lookup on
_create_sea_land_route(origin, destination, origin_name, destination_name, destination_port_data, sea_waypoints_raw) ==
  IF IsNone(destination_port_data)
  THEN _create_land_route(origin, destination, origin_name, destination_name)
  ELSE
    LET destination_port == PortCoordinate(Val(destination_port_data))
        sea_waypoints == ToCoordinates(sea_waypoints_raw)
        segment_1 ==
          IF sea_waypoints_raw = << >> THEN << >>
          ELSE << RouteSegment(SEA, origin, destination_port, sea_waypoints,
                    << "Sea: ", origin_name, " -> ", Val(destination_port_data).name >>,
                    _calculate_distance(sea_waypoints)) >>
        land_waypoints == << destination_port, destination >>
        segment_2 ==
          << RouteSegment(LAND, destination_port, destination, land_waypoints,
               << "Land: ", Val(destination_port_data).name, " -> ", destination_name >>,
               _calculate_distance(land_waypoints)) >>
    IN segment_1 \o segment_2

\* Fault variant of the lookup of _create_land_sea_route: the port nearest
\* to the destination is looked up.
land_sea_ports_near_destination(origin, destination) ==
  [raised |-> FALSE, origin_port_data |-> find_nearest_port(destination, None),
   destination_port_data |-> None]

\* the lookup of _create_land_sea_route
land_sea_ports(origin, destination) ==
  [raised |-> FALSE, origin_port_data |-> find_nearest_port(origin, None),
   destination_port_data |-> None]

\* Fault variant of _create_land_sea_route: the SEA segment is recorded as
\* starting at the origin instead of at the origin port.
_create_land_sea_route_sea_from_origin(origin, destination, origin_name, destination_name, origin_port_data, sea_waypoints_raw) ==
  IF IsNone(origin_port_data)
  THEN _create_land_route(origin, destination, origin_name, destination_name)
  ELSE
    LET origin_port == PortCoordinate(Val(origin_port_data))
        land_waypoints == << origin, origin_port >>
        segment_1 ==
          << RouteSegment(LAND, origin, origin_port, land_waypoints,
               << "Land: ", origin_name, " -> ", Val(origin_port_data).name >>,
               _calculate_distance(land_waypoints)) >>
        sea_waypoints == ToCoordinates(sea_waypoints_raw)
        segment_2 ==
          IF sea_waypoints_raw = << >> THEN << >>
          ELSE << RouteSegment(SEA, origin, destination, sea_waypoints,
                    << "Sea: ", Val(origin_port_data).name, " -> ", destination_name >>,
                    _calculate_distance(sea_waypoints)) >>
    IN segment_1 \o segment_2

\* _create_land_sea_route from the test of its lookup on
_create_land_sea_route(origin, destination, origin_name, destination_name, origin_port_data, sea_waypoints_raw) ==
  IF IsNone(origin_port_data)
  THEN _create_land_route(origin, destination, origin_name, destination_name)
  ELSE
    LET origin_port == PortCoordinate(Val(origin_port_data))
        land_waypoints == << origin, origin_port >>
        segment_1 ==
          << RouteSegment(LAND, origin, origin_port, land_waypoints,
               << "Land: ", origin_name, " -> ", Val(origin_port_data).name >>,
               _calculate_distance(land_waypoints)) >>
        sea_waypoints == ToCoordinates(sea_waypoints_raw)
        segment_2 ==
          IF sea_waypoints_raw = << >> THEN << >>
          ELSE << RouteSegment(SEA, origin_port, destination, sea_waypoints,
                    << "Sea: ", Val(origin_port_data).name, " -> ", destination_name >>,
                    _calculate_distance(sea_waypoints)) >>
    IN segment_1 \o segment_2

(***************************************************************************)
(* calculate_enhanced_route: mode dispatch and route assembly              *)
(***************************************************************************)
\* Fault variant of the if/elif chain: the port-to-port case of multimodal is
\* missing.
builder_of_without_port_to_port(analysis) ==
  IF analysis.recommended_mode = "land_only" THEN "_create_land_route"
  ELSE IF analysis.recommended_mode = "sea_only" THEN "_create_sea_route"
  ELSE IF analysis.recommended_mode = "multimodal"
  THEN IF ~analysis.origin_is_port /\ ~analysis.destination_is_port
       THEN "_create_land_sea_land_route"
       ELSE IF analysis.origin_is_port
       THEN "_create_sea_land_route"
       ELSE "_create_land_sea_route"
  ELSE "none"

\* the builder the if/elif chain on recommended_mode selects
builder_of(analysis) ==
  IF analysis.recommended_mode = "land_only" THEN "_create_land_route"
  ELSE IF analysis.recommended_mode = "sea_only" THEN "_create_sea_route"
  ELSE IF analysis.recommended_mode = "multimodal"
  THEN IF analysis.origin_is_port /\ analysis.destination_is_port
       THEN "_create_sea_route"
       ELSE IF ~analysis.origin_is_port /\ ~analysis.destination_is_port
       THEN "_create_land_sea_land_route"
       ELSE IF analysis.origin_is_port /\ ~analysis.destination_is_port
       THEN "_create_sea_land_route"
       ELSE "_create_land_sea_route"
  ELSE "none"

\* route_description as the if/elif chain sets it
route_description_of(analysis, origin_name, destination_name) ==
  IF analysis.recommended_mode = "land_only"
  THEN << "Land-only route: ", origin_name, " -> ", destination_name >>
  ELSE IF analysis.recommended_mode = "sea_only"
  THEN << "Sea route: ", origin_name, " -> ", destination_name >>
  ELSE IF analysis.recommended_mode = "multimodal"
  THEN IF analysis.origin_is_port /\ analysis.destination_is_port
       THEN << "Port to Port: ", origin_name, " -> ", destination_name >>
       ELSE IF ~analysis.origin_is_port /\ ~analysis.destination_is_port
       THEN << "Multimodal route: ", origin_name, " -> ", destination_name >>
       ELSE IF analysis.origin_is_port /\ ~analysis.destination_is_port
       THEN << "Port to Inland: ", origin_name, " -> ", destination_name >>
       ELSE << "Inland to Port: ", origin_name, " -> ", destination_name >>
  ELSE << >>

\* the port lookups the selected builder makes before anything else
builder_ports(builder, origin, destination) ==
  IF builder = "_create_land_sea_land_route" THEN land_sea_land_ports(origin, destination)
  ELSE IF builder = "_create_sea_land_route" THEN sea_land_ports(origin, destination)
  ELSE IF builder = "_create_land_sea_route" THEN land_sea_ports(origin, destination)
  ELSE [raised |-> FALSE, origin_port_data |-> None, destination_port_data |-> None]

\* The get_maritime_route call the selected builder makes, if it makes one:
\* Optional[[from, to]].
sea_leg(builder, origin, destination, found) ==
  IF builder = "_create_sea_route"
  THEN Some([from |-> origin, to |-> destination])
  ELSE IF builder = "_create_land_sea_land_route"
  THEN IF IsNone(found.origin_port_data) \/ IsNone(found.destination_port_data)
       THEN None
       ELSE Some([from |-> PortCoordinate(Val(found.origin_port_data)),
                  to |-> PortCoordinate(Val(found.destination_port_data))])
  ELSE IF builder = "_create_sea_land_route"
  THEN IF IsNone(found.destination_port_data) THEN None
       ELSE Some([from |-> origin, to |-> PortCoordinate(Val(found.destination_port_data))])
  ELSE IF builder = "_create_land_sea_route"
  THEN IF IsNone(found.origin_port_data) THEN None
       ELSE Some([from |-> PortCoordinate(Val(found.origin_port_data)), to |-> destination])
  ELSE None

\* the segments the selected builder returns
build(builder, origin, destination, origin_name, destination_name, found, waypoints_raw) ==
  IF builder = "_create_land_route"
  THEN _create_land_route(origin, destination, origin_name, destination_name)
  ELSE IF builder = "_create_sea_route"
  THEN _create_sea_route(origin, destination, origin_name, destination_name, waypoints_raw)
  ELSE IF builder = "_create_land_sea_land_route"
  THEN _create_land_sea_land_route(origin, destination, origin_name, destination_name,
                                   found.origin_port_data, found.destination_port_data,
                                   waypoints_raw)
  ELSE IF builder = "_create_sea_land_route"
  THEN _create_sea_land_route(origin, destination, origin_name, destination_name,
                              found.destination_port_data, waypoints_raw)
  ELSE IF builder = "_create_land_sea_route"
  THEN _create_land_sea_route(origin, destination, origin_name, destination_name,
                              found.origin_port_data, waypoints_raw)
  ELSE << >>

RECURSIVE SumDistance(_)
SumDistance(segment_list) ==
  IF segment_list = << >> THEN 0
  ELSE Head(segment_list).distance_km + SumDistance(Tail(segment_list))

RECURSIVE SumWaypoints(_)
SumWaypoints(segment_list) ==
  IF segment_list = << >> THEN 0
  ELSE Len(Head(segment_list).waypoints) + SumWaypoints(Tail(segment_list))

\* Fault variant of the route assembly: total_waypoints counts the segments.
assemble_counting_segments(segment_list, route_description) ==
  IF segment_list = << >> THEN None
  ELSE Some(EnhancedRoute(segment_list, SumDistance(segment_list),
                          Len(segment_list), route_description))

\* Fault variant of the route assembly: the empty segment list is not
\* tested for, and a Route is built from whatever the builder returned.
assemble_without_empty_test(segment_list, route_description) ==
  Some(EnhancedRoute(segment_list, SumDistance(segment_list),
                     SumWaypoints(segment_list), route_description))

\* `if not segments: return None`, the totals and the EnhancedRoute
assemble(segment_list, route_description) ==
  IF segment_list = << >> THEN None
  ELSE Some(EnhancedRoute(segment_list, SumDistance(segment_list),
                          SumWaypoints(segment_list), route_description))

\* Fault variant of route_to_json: distance_km is rounded down to whole
\* kilometres.
route_to_json_rounded(r) ==
  [ segments |->
      [i \in 1..Len(r.segments) |->
         LET segment == r.segments[i]
         IN [ type |-> SegmentTypeValue(segment.type),
              origin |-> [lon |-> segment.origin.lon, lat |-> segment.origin.lat],
              destination |-> [lon |-> segment.destination.lon,
                               lat |-> segment.destination.lat],
              waypoints |-> [k \in 1..Len(segment.waypoints) |->
                               [lon |-> segment.waypoints[k].lon,
                                lat |-> segment.waypoints[k].lat]],
              description |-> segment.description,
              distance_km |-> (segment.distance_km \div 10) * 10 ]],
    total_distance_km |-> r.total_distance_km,
    total_waypoints |-> r.total_waypoints,
    route_description |-> r.route_description ]

route_to_json(r) ==
  [ segments |->
      [i \in 1..Len(r.segments) |->
         LET segment == r.segments[i]
         IN [ type |-> SegmentTypeValue(segment.type),
              origin |-> [lon |-> segment.origin.lon, lat |-> segment.origin.lat],
              destination |-> [lon |-> segment.destination.lon,
                               lat |-> segment.destination.lat],
              waypoints |-> [k \in 1..Len(segment.waypoints) |->
                               [lon |-> segment.waypoints[k].lon,
                                lat |-> segment.waypoints[k].lat]],
              description |-> segment.description,
              distance_km |-> segment.distance_km ]],
    total_distance_km |-> r.total_distance_km,
    total_waypoints |-> r.total_waypoints,
    route_description |-> r.route_description ]

(***************************************************************************)
(* Inputs of the model                                                     *)
(***************************************************************************)
\* longest LineString the provider answers with (the parts of a
\* MultiLineString have at most one point each)
MaxPathLen == 2

\* sys.argv[2] and sys.argv[3]
PlaceNames ==
  { <<"B","o","g","o","t","á",","," ","C","o","l","o","m","b","i","a">>,
    <<"M","i","a","m","i",","," ","U","S","A">>,
    <<"H","a","v","a","n","a",","," ","C","u","b","a">>,
    <<"L","o","n","d","o","n",","," ","U","K">>,
    <<"D","e","n","v","e","r">>,
    <<"T","o","k","y","o",","," ","J","a","p","a","n">>,
    <<"R","o","t","t","e","r","d","a","m">>,
    <<"B","o","g","o","t","a">> }

\* sys.argv[4]: absent, a number, not a number
ResolutionArgs == { None, Some(<<"1","0">>), Some(<<"a","b","c">>) }

GeocodeResponses ==
  { [kind |-> "ok", coord |-> GeoCoords[i]] : i \in 1..Len(GeoCoords) }
    \cup { [kind |-> "empty"], [kind |-> "error"] }

\* sequences over S of length lo..hi
SeqsOfLen(S, lo, hi) == UNION { [1..n -> S] : n \in lo..hi }

\* points of the provider's answer to a request from `from` to `to`: the two
\* requested points and a point at 190 degrees east
PathPoints(from, to) ==
  { << from.lon, from.lat >>, << to.lon, to.lat >>, << 1900, 0 >> }

ProviderEnvs(from, to) ==
  { [kind |-> "jar_missing"], [kind |-> "timeout"], [kind |-> "exception"] }
  \cup { [kind |-> "completed", returncode |-> 1, output_exists |-> FALSE, features |-> << >>],
         [kind |-> "completed", returncode |-> 0, output_exists |-> FALSE, features |-> << >>],
         [kind |-> "completed", returncode |-> 0, output_exists |-> TRUE, features |-> << >>],
         [kind |-> "completed", returncode |-> 0, output_exists |-> TRUE,
          features |-> << [type |-> "Point", point |-> << from.lon, from.lat >>] >>] }
  \cup { [kind |-> "completed", returncode |-> 0, output_exists |-> TRUE,
          features |-> << [type |-> "LineString", coordinates |-> path] >>] :
            path \in SeqsOfLen(PathPoints(from, to), 0, MaxPathLen) }
  \cup { [kind |-> "completed", returncode |-> 0, output_exists |-> TRUE,
          features |-> << [type |-> "MultiLineString", parts |-> << p, q >>] >>] :
            p \in { << >>, << << from.lon, from.lat >> >>, << << 1900, 0 >> >> },
            q \in { << >>, << << to.lon, to.lat >> >>, << << 1900, 0 >> >> } }

(***************************************************************************)
(* Command-line entry point (__main__) and the steps of                    *)
(* calculate_enhanced_route.  One process runs: Invoke, GeocodeOrigin,     *)
(* GeocodeDestination, AnalyzeAndBuild, then ProviderReturn when the       *)
(* builder has a sea leg, then PrintResult.  Processes share no state, so  *)
(* one behaviour is one process.                                           *)
(***************************************************************************)
DecimalDigits == <<"0","1","2","3","4","5","6","7","8","9">>

IsDigit(c) == \E i \in 1..Len(DecimalDigits) : DecimalDigits[i] = c

DigitValue(c) == (CHOOSE i \in 1..Len(DecimalDigits) : DecimalDigits[i] = c) - 1

RECURSIVE DigitsValue(_)
DigitsValue(text) ==
  IF text = << >> THEN 0
  ELSE 10 * DigitsValue(SubSeq(text, 1, Len(text) - 1)) + DigitValue(text[Len(text)])

\* int(text) for a text of decimal digits; None stands for ValueError
ParseInt(text) ==
  IF text # << >> /\ \A i \in 1..Len(text) : IsDigit(text[i])
  THEN Some(DigitsValue(text))
  ELSE None

\* `if __name__ == "__main__"` with sys.argv[1] == "calculate_route": the
\* arguments are read and the calculator is constructed; int(sys.argv[4])
\* raising ValueError ends the process with a traceback and status 1.
Invoke(origin, destination, resolution) ==
  /\ pc = "idle"
  /\ argv' = Some([origin |-> origin, destination |-> destination,
                   resolution |-> resolution])
  /\ IF IsNone(resolution)
     THEN sea_route_resolution' = Some(5) /\ exit_code' = None /\ pc' = "geocode_origin"
     ELSE IF IsNone(ParseInt(Val(resolution)))
          THEN sea_route_resolution' = None /\ exit_code' = Some(1) /\ pc' = "exited"
          ELSE /\ sea_route_resolution' = ParseInt(Val(resolution))
               /\ exit_code' = None
               /\ pc' = "geocode_origin"
  /\ UNCHANGED << ports, origin_coord, destination_coord, route_analysis, frame, route,
                  stdout, geocode_log, provider_log, direct_call, norm_in, norm_out, lookup, watched >>

\* Fault variant of the origin geocoding step: a call that yields no
\* coordinate is made a second time before the destination is geocoded.
GeocodeOriginRetrying(response) ==
  /\ pc = "geocode_origin"
  /\ origin_coord' = get_coordinates(Val(argv).origin, response)
  /\ stdout' = stdout \o get_coordinates_prints(Val(argv).origin, response)
  /\ \E invocation \in { [place_name |-> Val(argv).origin, response |-> response] } :
       geocode_log' = IF IsNone(get_coordinates(Val(argv).origin, response))
                      THEN geocode_log \o << invocation, invocation >>
                      ELSE Append(geocode_log, invocation)
  /\ pc' = "geocode_destination"
  /\ UNCHANGED << ports, argv, sea_route_resolution, destination_coord, route_analysis,
                  frame, route, exit_code, provider_log, direct_call, norm_in, norm_out, lookup,
                  watched >>

\* origin_coord = self.coordinate_extractor.get_coordinates(origin_name)
GeocodeOrigin(response) ==
  /\ pc = "geocode_origin"
  /\ origin_coord' = get_coordinates(Val(argv).origin, response)
  /\ stdout' = stdout \o get_coordinates_prints(Val(argv).origin, response)
  /\ geocode_log' = Append(geocode_log, [place_name |-> Val(argv).origin,
                                           response |-> response])
  /\ pc' = "geocode_destination"
  /\ UNCHANGED << ports, argv, sea_route_resolution, destination_coord, route_analysis,
                  frame, route, exit_code, provider_log, direct_call, norm_in, norm_out, lookup,
                  watched >>

\* destination_coord = self.coordinate_extractor.get_coordinates(destination_name)
GeocodeDestination(response) ==
  /\ pc = "geocode_destination"
  /\ destination_coord' = get_coordinates(Val(argv).destination, response)
  /\ stdout' = stdout \o get_coordinates_prints(Val(argv).destination, response)
  /\ geocode_log' = Append(geocode_log, [place_name |-> Val(argv).destination,
                                           response |-> response])
  /\ pc' = "analyze"
  /\ UNCHANGED << ports, argv, sea_route_resolution, origin_coord, route_analysis,
                  frame, route, exit_code, provider_log, direct_call, norm_in, norm_out, lookup,
                  watched >>

\* The coordinate test, the analysis, and the dispatched builder up to its
\* get_maritime_route call (the builder's locals are kept in frame); when the
\* builder makes no such call, the rest of calculate_enhanced_route as well.
AnalyzeAndBuild ==
  /\ pc = "analyze"
  /\ IF IsNone(origin_coord) \/ IsNone(destination_coord)
     THEN /\ route' = None
          /\ pc' = "returned"
          /\ UNCHANGED << route_analysis, frame, exit_code >>
     ELSE \E analysis \in { _analyze_route_requirements(Val(argv).origin,
                                                        Val(argv).destination,
                                                        Val(origin_coord),
                                                        Val(destination_coord)) } :
          \E found \in { builder_ports(builder_of(analysis), Val(origin_coord),
                                       Val(destination_coord)) } :
          \E leg \in { sea_leg(builder_of(analysis), Val(origin_coord),
                               Val(destination_coord), found) } :
             /\ route_analysis' = Some(analysis)
             /\ IF found.raised
                THEN pc' = "exited" /\ exit_code' = Some(1) /\ UNCHANGED << route, frame >>
                ELSE IF ~IsNone(leg)
                THEN /\ frame' = Some([builder |-> builder_of(analysis), found |-> found,
                                       from |-> Val(leg).from, to |-> Val(leg).to])
                     /\ pc' = "provider"
                     /\ UNCHANGED << route, exit_code >>
                ELSE /\ route' = assemble(build(builder_of(analysis), Val(origin_coord),
                                                Val(destination_coord), Val(argv).origin,
                                                Val(argv).destination, found, << >>),
                                          route_description_of(analysis, Val(argv).origin,
                                                               Val(argv).destination))
                     /\ pc' = "returned"
                     /\ UNCHANGED << frame, exit_code >>
  /\ UNCHANGED << ports, argv, sea_route_resolution, origin_coord, destination_coord,
                  stdout, geocode_log, provider_log, direct_call, norm_in, norm_out, lookup, watched >>

\* Fault variant of the provider step: an invocation that timed out or raised
\* is made a second time before the fallback is taken.
ProviderReturnRetrying(env) ==
  /\ pc = "provider"
  /\ \E waypoints_raw \in { get_maritime_route(Val(frame).from, Val(frame).to,
                                               Val(sea_route_resolution), env) } :
        \E invocation \in { [from |-> Val(frame).from, to |-> Val(frame).to,
                             resolution |-> Val(sea_route_resolution),
                             env |-> env, returned |-> waypoints_raw] } :
        /\ provider_log' = IF env.kind \in { "timeout", "exception" }
                           THEN provider_log \o << invocation, invocation >>
                           ELSE Append(provider_log, invocation)
        /\ stdout' = stdout \o get_maritime_route_prints(env)
        /\ route' = assemble(build(Val(frame).builder, Val(origin_coord),
                                   Val(destination_coord), Val(argv).origin,
                                   Val(argv).destination, Val(frame).found,
                                   waypoints_raw),
                             route_description_of(Val(route_analysis), Val(argv).origin,
                                                  Val(argv).destination))
  /\ frame' = None
  /\ pc' = "returned"
  /\ UNCHANGED << ports, argv, sea_route_resolution, origin_coord, destination_coord,
                  route_analysis, exit_code, geocode_log, direct_call, norm_in, norm_out, lookup,
                  watched >>

\* The builder's get_maritime_route call returns, the builder finishes and
\* calculate_enhanced_route assembles the route.
ProviderReturn(env) ==
  /\ pc = "provider"
  /\ \E waypoints_raw \in { get_maritime_route(Val(frame).from, Val(frame).to,
                                               Val(sea_route_resolution), env) } :
        /\ provider_log' = Append(provider_log,
                                  [from |-> Val(frame).from, to |-> Val(frame).to,
                                   resolution |-> Val(sea_route_resolution),
                                   env |-> env, returned |-> waypoints_raw])
        /\ stdout' = stdout \o get_maritime_route_prints(env)
        /\ route' = assemble(build(Val(frame).builder, Val(origin_coord),
                                   Val(destination_coord), Val(argv).origin,
                                   Val(argv).destination, Val(frame).found,
                                   waypoints_raw),
                             route_description_of(Val(route_analysis), Val(argv).origin,
                                                  Val(argv).destination))
  /\ frame' = None
  /\ pc' = "returned"
  /\ UNCHANGED << ports, argv, sea_route_resolution, origin_coord, destination_coord,
                  route_analysis, exit_code, geocode_log, direct_call, norm_in, norm_out, lookup,
                  watched >>

(***************************************************************************)
(* json.dumps and json.load(s), on the documents __main__ prints.  A JSON  *)
(* text is its sequence of tokens: punctuation, strings, and numbers as    *)
(* the characters of their literal.  A float of the model (tenths) is      *)
(* written as repr writes it, with one digit after the point; an int is    *)
(* written without a point.                                                *)
(***************************************************************************)
JsonPunct(p) == [tok |-> p]

JsonString(s) == [tok |-> "str", text |-> s]

Abs(n) == IF n < 0 THEN -n ELSE n

\* the decimal digits of a natural number
RECURSIVE FormatDigits(_)
FormatDigits(n) ==
  IF n < 10 THEN << DecimalDigits[n + 1] >>
  ELSE FormatDigits(n \div 10) \o << DecimalDigits[(n % 10) + 1] >>

\* float.__repr__ of x tenths: 412.3, -80.2, 0.0
float_repr(x) ==
  (IF x < 0 THEN << "-" >> ELSE << >>)
    \o FormatDigits(Abs(x) \div 10) \o << "." >> \o FormatDigits(Abs(x) % 10)

\* int.__repr__
int_repr(n) == (IF n < 0 THEN << "-" >> ELSE << >>) \o FormatDigits(Abs(n))

JsonFloat(x) == << [tok |-> "num", text |-> float_repr(x)] >>

JsonInt(n) == << [tok |-> "num", text |-> int_repr(n)] >>

\* the token sequences of items, separated by commas
RECURSIVE JsonJoin(_)
JsonJoin(items) ==
  IF items = << >> THEN << >>
  ELSE IF Len(items) = 1 THEN items[1]
  ELSE items[1] \o << JsonPunct(",") >> \o JsonJoin(Tail(items))

JsonMember(key, value) == << JsonString(key), JsonPunct(":") >> \o value

JsonObject(members) == << JsonPunct("{") >> \o JsonJoin(members) \o << JsonPunct("}") >>

JsonArray(elements) == << JsonPunct("[") >> \o JsonJoin(elements) \o << JsonPunct("]") >>

\* {"lon": ..., "lat": ...}
json_dumps_coordinate(c) ==
  JsonObject(<< JsonMember("lon", JsonFloat(c.lon)), JsonMember("lat", JsonFloat(c.lat)) >>)

\* one element of "segments", keys in the order route_to_json inserts them
json_dumps_segment(s) ==
  JsonObject(<< JsonMember("type", << JsonString(s.type) >>),
                JsonMember("origin", json_dumps_coordinate(s.origin)),
                JsonMember("destination", json_dumps_coordinate(s.destination)),
                JsonMember("waypoints",
                           JsonArray([k \in 1..Len(s.waypoints) |->
                                        json_dumps_coordinate(s.waypoints[k])])),
                JsonMember("description", << JsonString(s.description) >>),
                JsonMember("distance_km", JsonFloat(s.distance_km)) >>)

\* json.dumps(route_to_json(route))
json_dumps(j) ==
  JsonObject(<< JsonMember("segments",
                           JsonArray([i \in 1..Len(j.segments) |->
                                        json_dumps_segment(j.segments[i])])),
                JsonMember("total_distance_km", JsonFloat(j.total_distance_km)),
                JsonMember("total_waypoints", JsonInt(j.total_waypoints)),
                JsonMember("route_description", << JsonString(j.route_description) >>) >>)

\* json.dumps({"error": message})
json_dumps_error(message) ==
  JsonObject(<< JsonMember("error", << JsonString(message) >>) >>)

\* position of the decimal point in a number literal, 0 when there is none
PointAt(text) ==
  IF \E i \in 1..Len(text) : text[i] = "."
  THEN CHOOSE i \in 1..Len(text) : text[i] = "."
  ELSE 0

\* The value of a number literal: an int for a literal without a point, a
\* float (in tenths) for one with a point.
ParseNumber(text) ==
  LET negative == text # << >> /\ text[1] = "-"
      digits == IF negative THEN Tail(text) ELSE text
      point == PointAt(digits)
      magnitude ==
        IF point = 0 THEN DigitsValue(digits)
        ELSE 10 * DigitsValue(SubSeq(digits, 1, point - 1))
               + (IF point < Len(digits) THEN DigitValue(digits[point + 1]) ELSE 0)
  IN IF negative THEN -magnitude ELSE magnitude

\* The parser: each operator reads one construct starting at tokens[i] and
\* gives its value and the position after it.  Objects become functions of
\* their keys, arrays sequences.
RECURSIVE ParseValue(_, _), ParseElements(_, _, _), ParseMembers(_, _, _)
ParseValue(tokens, i) ==
  IF tokens[i].tok = "num"
  THEN [value |-> ParseNumber(tokens[i].text), next |-> i + 1]
  ELSE IF tokens[i].tok = "str"
  THEN [value |-> tokens[i].text, next |-> i + 1]
  ELSE IF tokens[i].tok = "["
  THEN IF tokens[i + 1].tok = "]"
       THEN [value |-> << >>, next |-> i + 2]
       ELSE ParseElements(tokens, i + 1, << >>)
  ELSE IF tokens[i + 1].tok = "}"
       THEN [value |-> << >>, next |-> i + 2]
       ELSE LET first == ParseValue(tokens, i + 3)
            IN ParseMembers(tokens, first.next, tokens[i + 1].text :> first.value)

\* the elements of an array from tokens[i] on, after those of `read`
ParseElements(tokens, i, read) ==
  LET element == ParseValue(tokens, i)
  IN IF tokens[element.next].tok = ","
     THEN ParseElements(tokens, element.next + 1, Append(read, element.value))
     ELSE [value |-> Append(read, element.value), next |-> element.next + 1]

\* the members of an object after those of `read`; tokens[i] is the comma
\* or the closing brace
ParseMembers(tokens, i, read) ==
  IF tokens[i].tok = ","
  THEN LET member == ParseValue(tokens, i + 3)
       IN ParseMembers(tokens, member.next, (tokens[i + 1].text :> member.value) @@ read)
  ELSE [value |-> read, next |-> i + 1]

\* json.loads(text)
json_loads(tokens) == ParseValue(tokens, 1).value

\* Fault variant of the printing step: nothing is printed when there is no
\* route.
PrintResultRouteOnly ==
  /\ pc = "returned"
  /\ stdout' = IF ~IsNone(route)
               THEN Append(stdout, [json |-> "route",
                                     text |-> json_dumps(route_to_json(Val(route)))])
               ELSE stdout
  /\ exit_code' = Some(0)
  /\ pc' = "exited"
  /\ UNCHANGED << ports, argv, sea_route_resolution, origin_coord, destination_coord,
                  route_analysis, frame, route, geocode_log, provider_log,
                  direct_call, norm_in, norm_out, lookup, watched >>

\* print(json.dumps(...)); sys.exit(0)
PrintResult ==
  /\ pc = "returned"
  /\ stdout' = Append(stdout,
                      IF ~IsNone(route)
                      THEN [json |-> "route", text |-> json_dumps(route_to_json(Val(route)))]
                      ELSE [json |-> "error",
                            text |-> json_dumps_error("Failed to calculate route")])
  /\ exit_code' = Some(0)
  /\ pc' = "exited"
  /\ UNCHANGED << ports, argv, sea_route_resolution, origin_coord, destination_coord,
                  route_analysis, frame, route, geocode_log, provider_log,
                  direct_call, norm_in, norm_out, lookup, watched >>

\* the state before the process starts
Blank ==
  /\ pc = "idle"
  /\ argv = None
  /\ sea_route_resolution = None
  /\ origin_coord = None
  /\ destination_coord = None
  /\ route_analysis = None
  /\ frame = None
  /\ route = None
  /\ stdout = << >>
  /\ exit_code = None
  /\ geocode_log = << >>
  /\ provider_log = << >>

Init ==
  /\ ports = MAJOR_PORTS
  /\ Blank
  /\ norm_in = << >>
  /\ norm_out = None
  /\ lookup = None
  /\ watched = None
  /\ direct_call = None

Next ==
  \/ /\ pc = "idle"
     /\ \E origin, destination \in PlaceNames : \E resolution \in ResolutionArgs :
           Invoke(origin, destination, resolution)
  \/ /\ pc = "geocode_origin"
     /\ \E response \in GeocodeResponses : GeocodeOrigin(response)
  \/ /\ pc = "geocode_destination"
     /\ \E response \in GeocodeResponses : GeocodeDestination(response)
  \/ AnalyzeAndBuild
  \/ /\ pc = "provider"
     /\ \E env \in ProviderEnvs(Val(frame).from, Val(frame).to) : ProviderReturn(env)
  \/ PrintResult

Spec == Init /\ [][Next]_vars

(***************************************************************************)
(* normalize_longitude_crossing as a function of its argument: norm_in is  *)
(* drawn from the raw coordinate lists of up to MaxNormLen points, and     *)
(* Normalize applies the function to it.                                   *)
(***************************************************************************)
MaxNormLen == 2

\* longitudes in tenths of a degree: inside the range, on its ends, just
\* outside, and more than one turn outside
RawLons == { -5410, -1900, -1801, -1800, 0, 1800, 1801, 1900, 5410 }

RawLats == { -100, 450 }

RawPoints == { << lon, lat >> : lon \in RawLons, lat \in RawLats }

InitNorm ==
  /\ ports = MAJOR_PORTS
  /\ Blank
  /\ norm_in \in SeqsOfLen(RawPoints, 0, MaxNormLen)
  /\ norm_out = None
  /\ lookup = None
  /\ watched = None
  /\ direct_call = None

Normalize ==
  /\ IsNone(norm_out)
  /\ norm_out' = Some(normalize_longitude_crossing(norm_in))
  /\ UNCHANGED << ports, pc, argv, sea_route_resolution, origin_coord, destination_coord,
                  route_analysis, frame, route, stdout, exit_code, geocode_log,
                  provider_log, direct_call, norm_in, lookup, watched >>

NextNorm == Normalize

SpecNorm == InitNorm /\ [][NextNorm]_vars

(***************************************************************************)
(* find_nearest_port as a function of the registry and its arguments: the  *)
(* registry is MAJOR_PORTS or a run of up to MaxRegistryLen consecutive    *)
(* entries of it (none included), and Lookup is one call.  lookup holds    *)
(* the latest call and watched an earlier call of the same behaviour.      *)
(***************************************************************************)
MaxRegistryLen == 3

Registries ==
  { MAJOR_PORTS }
    \cup { SubSeq(MAJOR_PORTS, run[1], run[1] + run[2] - 1) :
             run \in { r \in (1..Len(MAJOR_PORTS)) \X (0..MaxRegistryLen) :
                         r[1] + r[2] - 1 <= Len(MAJOR_PORTS) } }

\* the geocoded coordinates, and a point at the same distance from
\* Felixstowe/Harwich and Rotterdam
LookupCoords ==
  { GeoCoords[1], GeoCoords[4], GeoCoords[5], [lon |-> 29, lat |-> 519] }

ExcludeCountries == { None, Some(""), Some("USA"), Some("Sweden") }

InitPorts ==
  /\ ports \in Registries
  /\ Blank
  /\ norm_in = << >>
  /\ norm_out = None
  /\ lookup = None
  /\ watched = None
  /\ direct_call = None

\* one call of find_nearest_port; keep says whether the call before it is
\* the one kept in watched from now on
Lookup(coord, exclude_country, keep) ==
  /\ lookup' = Some([coord |-> coord, exclude_country |-> exclude_country,
                     returned |-> find_nearest_port(coord, exclude_country)])
  /\ watched' = IF keep THEN lookup ELSE watched
  /\ UNCHANGED << ports, pc, argv, sea_route_resolution, origin_coord, destination_coord,
                  route_analysis, frame, route, stdout, exit_code, geocode_log,
                  provider_log, direct_call, norm_in, norm_out >>

NextPorts ==
  \E coord \in LookupCoords : \E exclude_country \in ExcludeCountries :
    \E keep \in BOOLEAN : Lookup(coord, exclude_country, keep)

SpecPorts == InitPorts /\ [][NextPorts]_vars


(***************************************************************************)
(* The mode dispatch of calculate_enhanced_route and the builder it        *)
(* selects, called directly on an analysis result.  The registry is        *)
(* MAJOR_PORTS or a run of up to MaxRegistryLen consecutive entries of it  *)
(* (none included), so that a lookup can find no port; what                *)
(* get_maritime_route returns to the builder is any value it computes for  *)
(* the leg, or the empty list its declared Optional[List] return type      *)
(* leaves room for.  The analysis result carries one of the three modes    *)
(* _determine_optimal_mode returns, or a mode none of the branches of the  *)
(* if/elif chain matches.                                                  *)
(***************************************************************************)
RecommendedModes == { "land_only", "sea_only", "multimodal", "unknown" }

\* what the builder's get_maritime_route call for the leg can hand back
ProviderAnswers(from, to) ==
  { << >> } \cup { get_maritime_route(from, to, 5, env) : env \in ProviderEnvs(from, to) }

\* origin_name and destination_name of the direct calls
BuilderOriginName == << "D","e","n","v","e","r" >>

BuilderDestinationName == << "B","o","g","o","t","a" >>

InitBuilders ==
  /\ ports \in Registries
  /\ Blank
  /\ norm_in = << >>
  /\ norm_out = None
  /\ lookup = None
  /\ watched = None
  /\ direct_call = None

\* the call made, the route description set beside it, what the provider
\* handed back if it was invoked, and the segment list returned or the fact
\* that an exception was raised
BuilderCall(analysis, builder, origin, destination, found, provider, raised, returned) ==
  [recommended_mode |-> analysis.recommended_mode,
   origin_is_port |-> analysis.origin_is_port,
   destination_is_port |-> analysis.destination_is_port,
   builder |-> builder, origin |-> origin, destination |-> destination,
   route_description |->
     route_description_of(analysis, BuilderOriginName, BuilderDestinationName),
   found |-> found, provider |-> provider, raised |-> raised, returned |-> returned]

\* The if/elif chain on analysis.recommended_mode and the builder call it
\* makes: the port lookups, the get_maritime_route call when the builder
\* gets that far, and the segment list returned, or the exception raised.
Dispatch(analysis, origin, destination) ==
  /\ IsNone(direct_call)
  /\ \E builder \in { builder_of(analysis) } :
     \E found \in { builder_ports(builder, origin, destination) } :
       IF found.raised
       THEN direct_call' = Some(BuilderCall(analysis, builder, origin, destination,
                                            found, None, TRUE, << >>))
       ELSE \E leg \in { sea_leg(builder, origin, destination, found) } :
              IF IsNone(leg)
              THEN direct_call' =
                     Some(BuilderCall(analysis, builder, origin, destination, found, None,
                                      FALSE,
                                      build(builder, origin, destination,
                                            BuilderOriginName, BuilderDestinationName,
                                            found, << >>)))
              ELSE \E waypoints_raw \in ProviderAnswers(Val(leg).from, Val(leg).to) :
                     direct_call' =
                       Some(BuilderCall(analysis, builder, origin, destination, found,
                                        Some(waypoints_raw), FALSE,
                                        build(builder, origin, destination,
                                              BuilderOriginName, BuilderDestinationName,
                                              found, waypoints_raw)))
  /\ UNCHANGED << ports, pc, argv, sea_route_resolution, origin_coord, destination_coord,
                  route_analysis, frame, route, stdout, exit_code, geocode_log,
                  provider_log, norm_in, norm_out, lookup, watched >>

NextBuilders ==
  \E recommended_mode \in RecommendedModes :
    \E origin_is_port, destination_is_port \in BOOLEAN :
      \E origin, destination \in LookupCoords :
        Dispatch([recommended_mode |-> recommended_mode, origin_is_port |-> origin_is_port,
                  destination_is_port |-> destination_is_port], origin, destination)

SpecBuilders == InitBuilders /\ [][NextBuilders]_vars

(***************************************************************************)
(* The two decisions of the analyzer called directly.  Init draws the      *)
(* arguments of one call of _determine_optimal_mode or of                  *)
(* _requires_water_crossing; the action of that method applies it.         *)
(***************************************************************************)
\* distance_km in whole kilometres: on, next to and away from the
\* thresholds 800, 1000, 1500 and 2500
ModeDistances == { 0, 799, 800, 801, 1000, 1001, 1499, 1500, 2500, 2501, 12000 }

\* origin_country, destination_country: None, the empty text, two countries
\* of one continental group, a country of another group, an unlisted country
ModeCountries ==
  { None, Some(<< >>), Some(<<"U","S","A">>), Some(<<"C","a","n","a","d","a">>),
    Some(<<"C","o","l","o","m","b","i","a">>), Some(<<"C","u","b","a">>) }

ModeCalls ==
  { [method |-> "_determine_optimal_mode", is_domestic |-> is_domestic,
     distance_km |-> distance_km, requires_water_crossing |-> requires_water_crossing,
     origin_is_port |-> origin_is_port, destination_is_port |-> destination_is_port,
     origin_country |-> origin_country, destination_country |-> destination_country,
     reached |-> None, returned |-> None] :
       is_domestic \in BOOLEAN, distance_km \in ModeDistances,
       requires_water_crossing \in BOOLEAN, origin_is_port \in BOOLEAN,
       destination_is_port \in BOOLEAN, origin_country \in ModeCountries,
       destination_country \in ModeCountries }

\* Miami, Havana, Bogota and Suva
WaterCoords == { GeoCoords[1], GeoCoords[2], GeoCoords[3], GeoCoords[5] }

WaterCountries ==
  { None, Some(<< >>), Some(<<"U","S","A">>), Some(<<"C","u","b","a">>),
    Some(<<"C","o","l","o","m","b","i","a">>), Some(<<"J","a","p","a","n">>) }

WaterCalls ==
  { [method |-> "_requires_water_crossing", origin |-> origin, destination |-> destination,
     origin_country |-> origin_country, destination_country |-> destination_country,
     returned |-> None] :
       origin \in WaterCoords, destination \in WaterCoords,
       origin_country \in WaterCountries, destination_country \in WaterCountries }

InitAnalyzer ==
  /\ ports = MAJOR_PORTS
  /\ Blank
  /\ norm_in = << >>
  /\ norm_out = None
  /\ lookup = None
  /\ watched = None
  /\ direct_call \in { Some(c) : c \in ModeCalls \cup WaterCalls }

OnlyDirectCallChanges ==
  UNCHANGED << ports, pc, argv, sea_route_resolution, origin_coord, destination_coord,
               route_analysis, frame, route, stdout, exit_code, geocode_log,
               provider_log, norm_in, norm_out, lookup, watched >>

\* the call of _determine_optimal_mode returns, from the return statement
\* of one of its rules
DetermineOptimalMode ==
  /\ Val(direct_call).method = "_determine_optimal_mode"
  /\ IsNone(Val(direct_call).returned)
  /\ direct_call' =
       Some([Val(direct_call) EXCEPT
               !.reached =
                 Some(_determine_optimal_mode_return(
                        Val(direct_call).is_domestic, Val(direct_call).distance_km,
                        Val(direct_call).requires_water_crossing,
                        Val(direct_call).origin_is_port, Val(direct_call).destination_is_port,
                        Val(direct_call).origin_country, Val(direct_call).destination_country)),
               !.returned =
                 Some(_determine_optimal_mode(
                        Val(direct_call).is_domestic, Val(direct_call).distance_km,
                        Val(direct_call).requires_water_crossing,
                        Val(direct_call).origin_is_port, Val(direct_call).destination_is_port,
                        Val(direct_call).origin_country, Val(direct_call).destination_country))])
  /\ OnlyDirectCallChanges

\* the call of _requires_water_crossing returns
RequiresWaterCrossing ==
  /\ Val(direct_call).method = "_requires_water_crossing"
  /\ IsNone(Val(direct_call).returned)
  /\ direct_call' =
       Some([Val(direct_call) EXCEPT !.returned =
               Some(_requires_water_crossing(
                      Val(direct_call).origin, Val(direct_call).destination,
                      Val(direct_call).origin_country, Val(direct_call).destination_country))])
  /\ OnlyDirectCallChanges

NextAnalyzer == DetermineOptimalMode \/ RequiresWaterCrossing

SpecAnalyzer == InitAnalyzer /\ [][NextAnalyzer]_vars

(***************************************************************************)
(* route_to_json and json.dumps applied to the Routes the mode dispatch    *)
(* yields over MAJOR_PORTS: Dispatch as above, then the assembly of the    *)
(* Route and the printing of its JSON text.                                *)
(***************************************************************************)
InitJson ==
  /\ ports = MAJOR_PORTS
  /\ Blank
  /\ norm_in = << >>
  /\ norm_out = None
  /\ lookup = None
  /\ watched = None
  /\ direct_call = None

\* `if not segments: return None`, the totals and the EnhancedRoute, then
\* print(json.dumps(...)) of the route or of the error
AssembleAndPrint ==
  /\ ~IsNone(direct_call)
  /\ ~Val(direct_call).raised
  /\ stdout = << >>
  /\ \E assembled \in { assemble(Val(direct_call).returned,
                                  Val(direct_call).route_description) } :
       /\ route' = assembled
       /\ stdout' = Append(stdout,
                           IF ~IsNone(assembled)
                           THEN [json |-> "route",
                                 text |-> json_dumps(route_to_json(Val(assembled)))]
                           ELSE [json |-> "error",
                                 text |-> json_dumps_error("Failed to calculate route")])
  /\ UNCHANGED << ports, pc, argv, sea_route_resolution, origin_coord, destination_coord,
                  route_analysis, frame, exit_code, geocode_log, provider_log,
                  direct_call, norm_in, norm_out, lookup, watched >>

NextJson == NextBuilders \/ AssembleAndPrint

SpecJson == InitJson /\ [][NextJson]_vars
(***************************************************************************)
(* Properties                                                              *)
(***************************************************************************)
\* calculate_enhanced_route has returned: route holds what it returned
Returned == pc = "returned" \/ (pc = "exited" /\ exit_code = Some(0))

\* both countries resolved and equal
DomesticPair(analysis) ==
  /\ Truthy(analysis.origin_country)
  /\ Truthy(analysis.destination_country)
  /\ Lower(Val(analysis.origin_country)) = Lower(Val(analysis.destination_country))

\* the resolved countries form a known water-separated pair, in either order
WaterSeparatedPair(analysis) ==
  /\ Truthy(analysis.origin_country)
  /\ Truthy(analysis.destination_country)
  /\ \/ << Lower(Val(analysis.origin_country)),
           Lower(Val(analysis.destination_country)) >> \in water_crossings
     \/ << Lower(Val(analysis.destination_country)),
           Lower(Val(analysis.origin_country)) >> \in water_crossings

\* sum of a sequence of numbers
RECURSIVE SeqSum(_)
SeqSum(numbers) ==
  IF numbers = << >> THEN 0
  ELSE numbers[Len(numbers)] + SeqSum(SubSeq(numbers, 1, Len(numbers) - 1))

\* registry positions whose country differs from exclude_country (all
\* positions when no exclusion is given)
Candidates(exclude_country) ==
  { i \in 1..Len(ports) :
      IsNone(exclude_country) \/ ports[i].country # Val(exclude_country) }

\* dlon^2 + dlat^2 between coord and the port at registry position i
SqDist(coord, i) ==
  (coord.lon - ports[i].lon) * (coord.lon - ports[i].lon)
    + (coord.lat - ports[i].lat) * (coord.lat - ports[i].lat)

\* position i is at minimum distance from coord among the positions of S,
\* and is the first such position
FirstNearest(coord, S, i) ==
  /\ i \in S
  /\ \A j \in S : SqDist(coord, j) >= SqDist(coord, i)
  /\ \A j \in S : j < i => SqDist(coord, j) > SqDist(coord, i)

\* C1: for a domestic pair (both countries resolved and equal) whose direct
\* distance is below 1500 km the recommended mode is land_only, whatever the
\* water-crossing flag and whether or not the endpoints are ports, and the
\* returned Route has exactly one segment, of kind LAND, whose waypoint list
\* is exactly [origin, destination].
C1_DomesticShortIsLandOnly ==
  (~IsNone(route_analysis)
     /\ DomesticPair(Val(route_analysis))
     /\ Val(route_analysis).direct_distance_km < 1500)
  => /\ Val(route_analysis).recommended_mode = "land_only"
     /\ Returned
     /\ ~IsNone(route)
     /\ Len(Val(route).segments) = 1
     /\ Val(route).segments[1].type = LAND
     /\ Val(route).segments[1].waypoints
          = << Val(origin_coord), Val(destination_coord) >>

\* a domestic port-to-port pair between 1000 and 1500 km apart (the later
\* rules would send it by sea) has been routed
C1_Witness ==
  /\ Returned
  /\ ~IsNone(route_analysis)
  /\ DomesticPair(Val(route_analysis))
  /\ Val(route_analysis).direct_distance_km > 1000
  /\ Val(route_analysis).direct_distance_km < 1500
  /\ Val(route_analysis).origin_is_port
  /\ Val(route_analysis).destination_is_port
  /\ ~IsNone(route)
  /\ Val(route).segments[1].type = LAND

\* C2: for a non-domestic pair whose resolved countries form a known
\* water-separated pair (in either order) requires_water_crossing is true and
\* the returned Route is not a single LAND segment: it contains at least one
\* SEA segment.
C2_WaterSeparatedGoesBySea ==
  (~IsNone(route_analysis)
     /\ WaterSeparatedPair(Val(route_analysis))
     /\ ~DomesticPair(Val(route_analysis)))
  => /\ Val(route_analysis).requires_water_crossing
     /\ (Returned =>
          /\ ~IsNone(route)
          /\ \E i \in 1..Len(Val(route).segments) : Val(route).segments[i].type = SEA
          /\ ~(Len(Val(route).segments) = 1 /\ Val(route).segments[1].type = LAND))

\* a water-separated pair listed in the table in the other order, between
\* two places that are not ports, has been routed in three segments
C2_Witness ==
  /\ Returned
  /\ ~IsNone(route_analysis)
  /\ WaterSeparatedPair(Val(route_analysis))
  /\ << Lower(Val(Val(route_analysis).origin_country)),
        Lower(Val(Val(route_analysis).destination_country)) >> \notin water_crossings
  /\ ~IsNone(route)
  /\ Len(Val(route).segments) = 3
  /\ Val(route).segments[2].type = SEA

\* C3: for every Route calculate_enhanced_route returns, total_distance_km is
\* exactly the sum of its segments' distance_km and total_waypoints exactly
\* the sum of its segments' waypoint counts.
C3_TotalsAreSums ==
  ~IsNone(route) =>
    LET segments == Val(route).segments
    IN /\ Val(route).total_distance_km
            = SeqSum([i \in 1..Len(segments) |-> segments[i].distance_km])
       /\ Val(route).total_waypoints
            = SeqSum([i \in 1..Len(segments) |-> Len(segments[i].waypoints)])

\* a route of three segments of non-zero length has been returned
C3_Witness ==
  /\ Returned
  /\ ~IsNone(route)
  /\ Len(Val(route).segments) = 3
  /\ \A i \in 1..3 : Val(route).segments[i].distance_km > 0
  /\ Val(route).total_waypoints = 6

\* C4: when both endpoints are registered ports and the analysis selects
\* sea_only or multimodal, the returned Route has exactly one segment, of kind
\* SEA, from the origin coordinate to the destination coordinate.
C4_PortToPortIsOneSeaSegment ==
  (~IsNone(route_analysis)
     /\ Val(route_analysis).origin_is_port
     /\ Val(route_analysis).destination_is_port
     /\ Val(route_analysis).recommended_mode \in {"sea_only", "multimodal"}
     /\ Returned)
  => /\ ~IsNone(route)
     /\ Len(Val(route).segments) = 1
     /\ Val(route).segments[1].type = SEA
     /\ Val(route).segments[1].origin = Val(origin_coord)
     /\ Val(route).segments[1].destination = Val(destination_coord)

\* a port-to-port pair analysed as multimodal has been routed
C4_Witness ==
  /\ Returned
  /\ ~IsNone(route_analysis)
  /\ Val(route_analysis).origin_is_port
  /\ Val(route_analysis).destination_is_port
  /\ Val(route_analysis).recommended_mode = "multimodal"
  /\ ~IsNone(route)
  /\ Val(route).segments[1].type = SEA

\* C5: for a multimodal pair whose origin is a port and whose destination is
\* not, the Route has exactly two segments, SEA(origin -> destPort) then
\* LAND(destPort -> destination), where destPort is the registry port nearest
\* to the destination with no country excluded, and the LAND segment starts at
\* that port's coordinate.
C5_SeaThenLand ==
  (~IsNone(route_analysis)
     /\ Val(route_analysis).recommended_mode = "multimodal"
     /\ Val(route_analysis).origin_is_port
     /\ ~Val(route_analysis).destination_is_port
     /\ Returned)
  => /\ ~IsNone(route)
     /\ Len(Val(route).segments) = 2
     /\ \E k \in 1..Len(ports) :
          /\ FirstNearest(Val(destination_coord), 1..Len(ports), k)
          /\ Val(route).segments[1].type = SEA
          /\ Val(route).segments[1].origin = Val(origin_coord)
          /\ Val(route).segments[1].destination = Coordinate(ports[k].lon, ports[k].lat)
          /\ Val(route).segments[2].type = LAND
          /\ Val(route).segments[2].origin = Coordinate(ports[k].lon, ports[k].lat)
          /\ Val(route).segments[2].destination = Val(destination_coord)

\* a multimodal pair from a port to a place that is no port, whose nearest
\* port is not the port nearest to the origin, has been routed
C5_Witness ==
  /\ Returned
  /\ ~IsNone(route_analysis)
  /\ Val(route_analysis).recommended_mode = "multimodal"
  /\ Val(route_analysis).origin_is_port
  /\ ~Val(route_analysis).destination_is_port
  /\ ~IsNone(route)
  /\ Len(Val(route).segments) = 2
  /\ \E k, l \in 1..Len(ports) :
       /\ FirstNearest(Val(destination_coord), 1..Len(ports), k)
       /\ FirstNearest(Val(origin_coord), 1..Len(ports), l)
       /\ k # l

\* C6: for every coordinate sequence given to normalize_longitude_crossing,
\* sequences of length 0 and 1 included, every longitude of the output lies
\* in [-180, 180].
C6_OutputInRange ==
  ~IsNone(norm_out) =>
    \A i \in 1..Len(Val(norm_out)) :
       Val(norm_out)[i][1] >= -1800 /\ Val(norm_out)[i][1] <= 1800

\* C7: find_nearest_port(coord, exclude_country) returns the registry port at
\* minimum planar distance (dlon^2 + dlat^2) from coord among the ports whose
\* country differs from exclude_country (all ports when no exclusion is
\* given), the first in registry order when several are at that distance, and
\* returns no port only if every registry port is excluded.
C7_NearestNonExcludedFirstWins ==
  ~IsNone(lookup) =>
    LET call == Val(lookup)
        S == Candidates(call.exclude_country)
    IN IF S = {}
       THEN IsNone(call.returned)
       ELSE \E k \in S : /\ FirstNearest(call.coord, S, k)
                         /\ call.returned = Some(ports[k])

\* a call with an exclusion has returned the second of two ports at the same
\* minimum distance because the first is excluded, in a registry that also
\* holds a port further away
C7_Witness ==
  /\ ~IsNone(lookup)
  /\ ~IsNone(Val(lookup).exclude_country)
  /\ ~IsNone(Val(lookup).returned)
  /\ \E i, j, k \in 1..Len(ports) :
       /\ i < j
       /\ SqDist(Val(lookup).coord, i) = SqDist(Val(lookup).coord, j)
       /\ SqDist(Val(lookup).coord, k) > SqDist(Val(lookup).coord, j)
       /\ ports[i].country = Val(Val(lookup).exclude_country)
       /\ Val(lookup).returned = Some(ports[j])

GeocodingFailed ==
  /\ Len(geocode_log) = 2
  /\ \E i \in 1..2 : geocode_log[i].response.kind # "ok"

\* the JSON documents printed on standard output, in order
JsonPrinted == SelectSeq(stdout, LAMBDA line : "json" \in DOMAIN line)

\* C9: if geocoding fails for the origin name or for the destination name,
\* calculate_enhanced_route returns no Route (never a partial one), performs
\* no analysis and no maritime-provider invocation, and the failure is
\* surfaced as one top-level error result.
C9_GeocodingFailureAborts ==
  GeocodingFailed =>
    /\ IsNone(route)
    /\ IsNone(route_analysis)
    /\ IsNone(frame)
    /\ provider_log = << >>
    /\ pc \in {"analyze", "returned", "exited"}
    /\ (pc # "exited" => JsonPrinted = << >>)
    /\ (pc = "exited" =>
         /\ exit_code = Some(0)
         /\ Len(JsonPrinted) = 1
         /\ JsonPrinted[1].json = "error"
         /\ json_loads(JsonPrinted[1].text) = [error |-> "Failed to calculate route"])

\* the origin was geocoded, the destination was not, and the process has
\* ended
C9_Witness ==
  /\ GeocodingFailed
  /\ geocode_log[1].response.kind = "ok"
  /\ geocode_log[2].response.kind = "empty"
  /\ pc = "exited"
  /\ Len(JsonPrinted) = 1

\* the provider is unavailable, timed out, exited non-zero, produced no
\* usable geometry, or raised while running
ProviderFailed(env) ==
  \/ env.kind \in {"jar_missing", "timeout", "exception"}
  \/ /\ env.kind = "completed"
     /\ \/ env.returncode # 0
        \/ ~env.output_exists
        \/ env.features = << >>
        \/ /\ env.features # << >>
           /\ \/ env.features[1].type \notin {"LineString", "MultiLineString"}
              \/ /\ env.features[1].type = "LineString"
                 /\ env.features[1].coordinates = << >>
              \/ /\ env.features[1].type = "MultiLineString"
                 /\ \A i \in 1..Len(env.features[1].parts) :
                       env.features[1].parts[i] = << >>

\* C10: whenever the maritime path provider is unavailable, times out, exits
\* non-zero, produces no usable geometry or raises while running,
\* get_maritime_route returns the two-point straight line [[from], [to]], so
\* the route computation still returns a Route and no error is surfaced.
C10_ProviderFailureFallsBack ==
  \A i \in 1..Len(provider_log) :
     ProviderFailed(provider_log[i].env) =>
       /\ provider_log[i].returned
            = << << provider_log[i].from.lon, provider_log[i].from.lat >>,
                 << provider_log[i].to.lon, provider_log[i].to.lat >> >>
       /\ Returned
       /\ ~IsNone(route)
       /\ \A k \in 1..Len(JsonPrinted) : JsonPrinted[k].json = "route"
       /\ (pc = "exited" => Len(JsonPrinted) = 1)

\* the provider timed out on the sea leg of a three-segment route, and the
\* route has been printed
C10_Witness ==
  /\ pc = "exited"
  /\ Len(provider_log) = 1
  /\ provider_log[1].env.kind = "timeout"
  /\ ~IsNone(route)
  /\ Len(Val(route).segments) = 3
  /\ Len(JsonPrinted) = 1
  /\ JsonPrinted[1].json = "route"


\* the direct builder call made a lookup that yielded no port
BuilderLookupFailed(c) ==
  \/ /\ c.builder = "_create_land_sea_land_route"
     /\ \/ Candidates(None) = {}
        \/ \E k \in 1..Len(ports) :
             /\ FirstNearest(c.origin, 1..Len(ports), k)
             /\ Candidates(Some(ports[k].country)) = {}
  \/ /\ c.builder \in { "_create_sea_land_route", "_create_land_sea_route" }
     /\ Candidates(None) = {}

\* C11: in every multimodal builder (land-sea-land, sea-land, land-sea), when
\* a nearest-port lookup yields no port, the builder raises nothing and
\* returns exactly one LAND segment from the origin to the destination; in
\* land-sea-land this holds whichever of the two lookups fails.
C11_MissingPortDegradesToLand ==
  (~IsNone(direct_call) /\ BuilderLookupFailed(Val(direct_call)))
  => /\ ~Val(direct_call).raised
     /\ Len(Val(direct_call).returned) = 1
     /\ Val(direct_call).returned[1].type = LAND
     /\ Val(direct_call).returned[1].origin = Val(direct_call).origin
     /\ Val(direct_call).returned[1].destination = Val(direct_call).destination

\* C12: every invocation calculate_route <origin> <destination>
\* [resolutionKm], whatever the three arguments, ends with exit status 0
\* after printing exactly one JSON line, a route object or an error object;
\* no exception ends the process.
C12_OneJsonLineAndExitZero ==
  pc = "exited"
  => /\ exit_code = Some(0)
     /\ Len(JsonPrinted) = 1
     /\ JsonPrinted[1].json \in { "route", "error" }

\* C13: one route computation invokes the maritime provider exactly once when
\* the mode is sea_only or multimodal (port to port, sea-land, land-sea,
\* land-sea-land) and never when it is land_only; at no point of a computation
\* have two invocations been made, so an invocation that failed or timed out
\* is not repeated; and no route or segment exists while the invocation is
\* outstanding.
C13_ProviderInvokedOnceOrNever ==
  /\ Len(provider_log) <= 1
  /\ pc = "provider" => (provider_log = << >> /\ IsNone(route))
  /\ Returned =>
       Len(provider_log) =
         IF ~IsNone(route_analysis)
              /\ Val(route_analysis).recommended_mode \in { "sea_only", "multimodal" }
         THEN 1 ELSE 0

\* a land-sea-land route has been returned after the single provider
\* invocation timed out
C13_Witness ==
  /\ Returned
  /\ ~IsNone(route_analysis)
  /\ Val(route_analysis).recommended_mode = "multimodal"
  /\ ~Val(route_analysis).origin_is_port
  /\ ~Val(route_analysis).destination_is_port
  /\ ~IsNone(route)
  /\ Len(Val(route).segments) = 3
  /\ Len(provider_log) = 1
  /\ provider_log[1].env.kind = "timeout"

\* a direct call of the method has returned
DirectCallReturned(method) ==
  /\ ~IsNone(direct_call)
  /\ "method" \in DOMAIN Val(direct_call)
  /\ Val(direct_call).method = method
  /\ ~IsNone(Val(direct_call).returned)

\* C14: the JSON text printed for a Route, parsed back, has as many segments
\* as the Route, in the same order, each with the Route segment's type
\* ("sea" or "land") and distance_km, and the Route's total_distance_km and
\* total_waypoints.
C14_JsonRoundTrip ==
  (~IsNone(route) /\ JsonPrinted # << >>)
  => LET parsed == json_loads(JsonPrinted[1].text)
     IN /\ Len(parsed.segments) = Len(Val(route).segments)
        /\ \A i \in 1..Len(Val(route).segments) :
             /\ parsed.segments[i].type = SegmentTypeValue(Val(route).segments[i].type)
             /\ parsed.segments[i].distance_km = Val(route).segments[i].distance_km
        /\ parsed.total_distance_km = Val(route).total_distance_km
        /\ parsed.total_waypoints = Val(route).total_waypoints

\* a land-sea-land route whose segment distances are not whole kilometres
\* and differ from one another has been printed
C14_Witness ==
  /\ ~IsNone(route)
  /\ Len(JsonPrinted) = 1
  /\ Len(Val(route).segments) = 3
  /\ Val(route).segments[2].type = SEA
  /\ \A i \in 1..3 : Val(route).segments[i].distance_km % 10 # 0
  /\ \A i, k \in 1..3 :
       i # k => Val(route).segments[i].distance_km # Val(route).segments[k].distance_km

\* both countries are given and belong to one continental group
SameContinentalGroup(c) ==
  /\ Truthy(c.origin_country)
  /\ Truthy(c.destination_country)
  /\ \E countries \in continental_groups :
       { Lower(Val(c.origin_country)), Lower(Val(c.destination_country)) } \subseteq countries

\* rule k of the cascade (a = 1, ..., g = 7) applies to the arguments c
CascadeApplies(k, c) ==
  CASE k = 1 -> c.is_domestic /\ c.distance_km < 1500
    [] k = 2 -> c.requires_water_crossing
    [] k = 3 -> c.distance_km < 800
    [] k = 4 -> c.origin_is_port /\ c.destination_is_port /\ c.distance_km > 1000
    [] k = 5 -> c.distance_km > 2500
    [] k = 6 -> c.distance_km >= 800 /\ c.distance_km <= 2500
    [] k = 7 -> TRUE

\* the mode rule k gives
CascadeMode(k, c) ==
  CASE k \in { 1, 3 } -> "land_only"
    [] k = 2 -> IF c.origin_is_port /\ c.destination_is_port THEN "sea_only" ELSE "multimodal"
    [] k = 4 -> "sea_only"
    [] k \in { 5, 6 } -> IF SameContinentalGroup(c) THEN "land_only" ELSE "multimodal"
    [] k = 7 -> "multimodal"

\* C15: for every combination of is_domestic, distance, requires_water_crossing,
\* origin_is_port, destination_is_port and continental connectivity,
\* _determine_optimal_mode returns the mode of the first rule that applies in
\* the order (a) domestic and under 1500 km: land_only; (b) water crossing:
\* sea_only for two ports, else multimodal; (c) under 800 km: land_only;
\* (d) two ports and over 1000 km: sea_only; (e) over 2500 km: land_only within
\* one continental group, else multimodal; (f) 800 to 2500 km: the same test;
\* (g) otherwise multimodal.
C15_FirstMatchingRuleDecides ==
  DirectCallReturned("_determine_optimal_mode")
  => \E k \in 1..7 :
       /\ CascadeApplies(k, Val(direct_call))
       /\ \A j \in 1..(k - 1) : ~CascadeApplies(j, Val(direct_call))
       /\ Val(direct_call).returned = Some(CascadeMode(k, Val(direct_call)))

\* a call at exactly 800 km between places that share no continental group,
\* not domestic, without water crossing, has been decided by rule (f):
\* multimodal, where rule (c) gives land_only below 800 km
C15_Witness ==
  /\ DirectCallReturned("_determine_optimal_mode")
  /\ Val(direct_call).distance_km = 800
  /\ ~Val(direct_call).is_domestic
  /\ ~Val(direct_call).requires_water_crossing
  /\ ~SameContinentalGroup(Val(direct_call))
  /\ Val(direct_call).returned = Some("multimodal")

\* the two points lie inside the Caribbean/Gulf pair of boxes
InCaribbeanBoxes(origin, destination) ==
  /\ origin.lat > 200 /\ origin.lat < 300 /\ origin.lon > -900 /\ origin.lon < -750
  /\ destination.lat > 200 /\ destination.lat < 300
  /\ destination.lon > -850 /\ destination.lon < -700

\* C16: requires_water_crossing is true if the resolved country pair, in
\* either order, is in the table of water-separated pairs; otherwise true if
\* the longitudes differ by more than 60 degrees; otherwise true if both
\* points lie inside the Caribbean/Gulf boxes; otherwise false.  So two
\* resolved countries that are not in the table, more than 60 degrees of
\* longitude apart, give true.
C16_TableThenLongitudeThenBoxes ==
  DirectCallReturned("_requires_water_crossing")
  => Val(Val(direct_call).returned)
       = (\/ WaterSeparatedPair(Val(direct_call))
          \/ Abs(Val(direct_call).origin.lon - Val(direct_call).destination.lon) > 600
          \/ InCaribbeanBoxes(Val(direct_call).origin, Val(direct_call).destination))

\* segment of the given kind between two coordinates
SegmentIs(segment, type, origin, destination) ==
  /\ segment.type = type
  /\ segment.origin = origin
  /\ segment.destination = destination

\* C17: for a multimodal pair with neither endpoint a port, when both port
\* lookups succeed, the segments are LAND(origin -> originPort),
\* SEA(originPort -> destPort), LAND(destPort -> destination) in this order,
\* originPort being the registry port nearest to the origin and destPort the
\* port nearest to the destination among the ports outside originPort's
\* country; when the provider yields no waypoints the SEA segment alone is
\* left out and the two LAND segments keep their order.
C17_LandSeaLand ==
  (~IsNone(direct_call)
     /\ Val(direct_call).recommended_mode = "multimodal"
     /\ ~Val(direct_call).origin_is_port
     /\ ~Val(direct_call).destination_is_port
     /\ ~BuilderLookupFailed([builder |-> "_create_land_sea_land_route",
                              origin |-> Val(direct_call).origin]))
  => /\ ~Val(direct_call).raised
     /\ ~IsNone(Val(direct_call).provider)
     /\ \E k \in 1..Len(ports) :
          \E l \in Candidates(Some(ports[k].country)) :
            LET returned == Val(direct_call).returned
                origin_port == Coordinate(ports[k].lon, ports[k].lat)
                destination_port == Coordinate(ports[l].lon, ports[l].lat)
            IN /\ FirstNearest(Val(direct_call).origin, 1..Len(ports), k)
               /\ FirstNearest(Val(direct_call).destination,
                               Candidates(Some(ports[k].country)), l)
               /\ IF Val(Val(direct_call).provider) # << >>
                  THEN /\ Len(returned) = 3
                       /\ SegmentIs(returned[1], LAND, Val(direct_call).origin, origin_port)
                       /\ SegmentIs(returned[2], SEA, origin_port, destination_port)
                       /\ SegmentIs(returned[3], LAND, destination_port,
                                    Val(direct_call).destination)
                  ELSE /\ Len(returned) = 2
                       /\ SegmentIs(returned[1], LAND, Val(direct_call).origin, origin_port)
                       /\ SegmentIs(returned[2], LAND, destination_port,
                                    Val(direct_call).destination)

\* a land-sea-land call has returned three segments on the whole registry,
\* and the registry port nearest to the destination lies in the origin
\* port's country, so that another port was taken
C17_Witness ==
  /\ ~IsNone(direct_call)
  /\ Val(direct_call).builder = "_create_land_sea_land_route"
  /\ ports = MAJOR_PORTS
  /\ Len(Val(direct_call).returned) = 3
  /\ \E k, m \in 1..Len(ports) :
       /\ FirstNearest(Val(direct_call).origin, 1..Len(ports), k)
       /\ FirstNearest(Val(direct_call).destination, 1..Len(ports), m)
       /\ ports[m].country = ports[k].country

\* C18: for a multimodal pair whose destination is a port and whose origin is
\* not, the Route has exactly two segments, LAND(origin -> originPort) then
\* SEA(originPort -> destination), originPort being the registry port nearest
\* to the origin; the last segment ends at the destination coordinate.
C18_LandThenSea ==
  (~IsNone(route_analysis)
     /\ Val(route_analysis).recommended_mode = "multimodal"
     /\ ~Val(route_analysis).origin_is_port
     /\ Val(route_analysis).destination_is_port
     /\ Returned)
  => /\ ~IsNone(route)
     /\ Len(Val(route).segments) = 2
     /\ \E k \in 1..Len(ports) :
          /\ FirstNearest(Val(origin_coord), 1..Len(ports), k)
          /\ SegmentIs(Val(route).segments[1], LAND, Val(origin_coord),
                       Coordinate(ports[k].lon, ports[k].lat))
          /\ SegmentIs(Val(route).segments[2], SEA,
                       Coordinate(ports[k].lon, ports[k].lat), Val(destination_coord))

\* a multimodal pair from a place that is no port to a port has been routed,
\* and the port nearest to the origin is not the port nearest to the
\* destination
C18_Witness ==
  /\ Returned
  /\ ~IsNone(route_analysis)
  /\ Val(route_analysis).recommended_mode = "multimodal"
  /\ ~Val(route_analysis).origin_is_port
  /\ Val(route_analysis).destination_is_port
  /\ ~IsNone(route)
  /\ Val(route).segments[Len(Val(route).segments)].type = SEA
  /\ \E k, l \in 1..Len(ports) :
       /\ FirstNearest(Val(origin_coord), 1..Len(ports), k)
       /\ FirstNearest(Val(destination_coord), 1..Len(ports), l)
       /\ k # l

\* what the dispatch produces for a sea_only analysis of the same pair
SeaOnlyAnalysis ==
  [recommended_mode |-> "sea_only", origin_is_port |-> TRUE, destination_is_port |-> TRUE]

\* kind, origin, destination, waypoints and distance_km of each segment
SegmentsCompared(segment_list) ==
  [i \in 1..Len(segment_list) |->
     << segment_list[i].type, segment_list[i].origin, segment_list[i].destination,
        segment_list[i].waypoints, segment_list[i].distance_km >>]

\* C19: for the same coordinates and the same provider response, a multimodal
\* analysis with both endpoints ports yields the segment list (kind, origin,
\* destination, waypoints, distance_km) a sea_only analysis yields; only the
\* route description differs.
C19_PortToPortEqualsSeaOnly ==
  (~IsNone(direct_call)
     /\ Val(direct_call).recommended_mode = "multimodal"
     /\ Val(direct_call).origin_is_port
     /\ Val(direct_call).destination_is_port)
  => /\ ~Val(direct_call).raised
     /\ ~IsNone(Val(direct_call).provider)
     /\ SegmentsCompared(Val(direct_call).returned)
          = SegmentsCompared(
              build(builder_of(SeaOnlyAnalysis), Val(direct_call).origin,
                    Val(direct_call).destination, BuilderOriginName, BuilderDestinationName,
                    builder_ports(builder_of(SeaOnlyAnalysis), Val(direct_call).origin,
                                  Val(direct_call).destination),
                    Val(Val(direct_call).provider)))
     /\ Val(direct_call).route_description
          # route_description_of(SeaOnlyAnalysis, BuilderOriginName, BuilderDestinationName)

\* a multimodal call with both endpoints ports has returned a sea segment
\* built from a provider path of two points that is not the straight line
\* between the endpoints
C19_Witness ==
  /\ ~IsNone(direct_call)
  /\ Val(direct_call).recommended_mode = "multimodal"
  /\ Val(direct_call).origin_is_port
  /\ Val(direct_call).destination_is_port
  /\ Len(Val(direct_call).returned) = 1
  /\ Val(direct_call).returned[1].type = SEA
  /\ Len(Val(direct_call).returned[1].waypoints) = 2
  /\ Val(direct_call).returned[1].waypoints
       # << Val(direct_call).origin, Val(direct_call).destination >>

\* the waypoint list has at least two coordinates, starts at the segment's
\* origin and ends at its destination
SpansSegment(segment) ==
  /\ Len(segment.waypoints) >= 2
  /\ segment.waypoints[1] = segment.origin
  /\ segment.waypoints[Len(segment.waypoints)] = segment.destination

\* C20: every segment of every returned Route has at least two waypoints,
\* the first equal to the segment's origin and the last equal to its
\* destination, SEA segments built from any non-empty provider response (a
\* one-point path, a path that does not start or end at the requested
\* coordinates) included, as well as LAND segments.
C20_WaypointsSpanSegment ==
  (Returned /\ ~IsNone(route))
  => \A i \in 1..Len(Val(route).segments) : SpansSegment(Val(route).segments[i])

\* C21: every waypoint stored in a segment of a returned Route has its
\* longitude in [-180, 180], whatever the geocoder and the maritime provider
\* returned: sea-leg waypoints (straight-line fallback included) and land-leg
\* waypoints are normalized before they are stored.
C21_StoredLongitudesInRange ==
  (Returned /\ ~IsNone(route))
  => \A i \in 1..Len(Val(route).segments) :
       \A k \in 1..Len(Val(route).segments[i].waypoints) :
         /\ Val(route).segments[i].waypoints[k].lon >= -1800
         /\ Val(route).segments[i].waypoints[k].lon <= 1800

BuilderReturnedNothing ==
  /\ ~IsNone(direct_call)
  /\ ~Val(direct_call).raised
  /\ Val(direct_call).returned = << >>

\* C23: when the builder yields an empty segment list (the mode matches no
\* branch of the dispatch, or the sea-only builder received no waypoints),
\* no Route is returned and the one line printed is the JSON object
\* {"error": "Failed to calculate route"}; a Route that was constructed has
\* at least one segment.
C23_EmptySegmentListGivesNoRoute ==
  /\ (BuilderReturnedNothing /\ stdout # << >>)
       => /\ IsNone(route)
          /\ stdout[Len(stdout)].json = "error"
          /\ json_loads(stdout[Len(stdout)].text) = [error |-> "Failed to calculate route"]
  /\ ~IsNone(route) => Len(Val(route).segments) >= 1

\* the sea-only builder received no waypoints and the error was printed
C23_Witness ==
  /\ BuilderReturnedNothing
  /\ Val(direct_call).builder = "_create_sea_route"
  /\ Val(direct_call).provider = Some(<< >>)
  /\ stdout # << >>
  /\ IsNone(route)


\* the geocoder has been invoked for the origin and then for the destination,
\* and for nothing else
GeocodedOriginThenDestination ==
  /\ Len(geocode_log) = 2
  /\ geocode_log[1].place_name = Val(argv).origin
  /\ geocode_log[2].place_name = Val(argv).destination

\* C24: one route computation invokes the geocoder exactly once for the
\* origin and exactly once for the destination, the origin first; both
\* invocations are complete before the analysis and before any provider
\* invocation; at no point have more than two invocations been made, so a
\* geocoding call that failed is not repeated.
C24_GeocoderOncePerEndpoint ==
  /\ Len(geocode_log) <= 2
  /\ pc \in { "idle", "geocode_origin" } => geocode_log = << >>
  /\ pc = "geocode_destination"
       => /\ Len(geocode_log) = 1
          /\ geocode_log[1].place_name = Val(argv).origin
  /\ (pc \in { "analyze", "provider", "returned" }
        \/ ~IsNone(route_analysis) \/ provider_log # << >>)
       => GeocodedOriginThenDestination

\* the origin's geocoding call failed, the destination was geocoded all the
\* same, and the computation ended without a second call for the origin
C24_Witness ==
  /\ Returned
  /\ IsNone(origin_coord)
  /\ ~IsNone(destination_coord)
  /\ GeocodedOriginThenDestination

\* each segment ends where the next one starts
Chained(segment_list) ==
  \A i \in 1..(Len(segment_list) - 1) :
    segment_list[i].destination = segment_list[i + 1].origin

\* C25: in every returned Route the segments form a connected chain: the
\* first segment starts at the geocoded origin, the last one ends at the
\* geocoded destination, and each segment ends at the coordinate the next
\* one starts at.
C25_SegmentsFormChain ==
  (Returned /\ ~IsNone(route))
  => /\ Val(route).segments[1].origin = Val(origin_coord)
     /\ Val(route).segments[Len(Val(route).segments)].destination = Val(destination_coord)
     /\ Chained(Val(route).segments)

\* a land-sea route was returned whose land leg ends at a port that is
\* neither endpoint
C25_Witness ==
  /\ Returned
  /\ ~IsNone(route)
  /\ Len(Val(route).segments) = 2
  /\ Val(route).segments[1].type = LAND
  /\ Val(route).segments[2].type = SEA
  /\ Val(route).segments[1].destination # Val(origin_coord)
  /\ Val(route).segments[1].destination # Val(destination_coord)


\* both endpoints were geocoded
BothGeocoded == ~IsNone(origin_coord) /\ ~IsNone(destination_coord)

\* C26: whenever both endpoints geocode successfully the computation returns
\* a Route of one, two or three segments, never no Route, whatever the
\* analysis decides and whatever the provider does (path, failure, timeout,
\* missing installation).
C26_GeocodedPairGetsRoute ==
  (BothGeocoded /\ pc \in { "returned", "exited" })
  => /\ ~IsNone(route)
     /\ Len(Val(route).segments) \in 1..3

\* a sea-only Route of one segment was returned although the provider
\* invocation did not yield a path
C26_Witness ==
  /\ BothGeocoded
  /\ Returned
  /\ ~IsNone(route)
  /\ Val(route_analysis).recommended_mode = "sea_only"
  /\ Len(Val(route).segments) = 1
  /\ Len(provider_log) = 1
  /\ provider_log[1].env.kind # "path"

\* C27: the analyzer recommends sea_only only when both endpoints are ports:
\* for every input with origin_is_port false or destination_is_port false
\* the mode returned is land_only or multimodal.
C27_SeaOnlyNeedsTwoPorts ==
  (DirectCallReturned("_determine_optimal_mode")
     /\ ~(Val(direct_call).origin_is_port /\ Val(direct_call).destination_is_port))
  => Val(Val(direct_call).returned) \in { "land_only", "multimodal" }

\* a pair over 1000 km apart with no water crossing, of which the origin
\* alone is a port, got a mode other than sea_only
C27_Witness ==
  /\ DirectCallReturned("_determine_optimal_mode")
  /\ Val(direct_call).origin_is_port
  /\ ~Val(direct_call).destination_is_port
  /\ ~Val(direct_call).is_domestic
  /\ ~Val(direct_call).requires_water_crossing
  /\ Val(direct_call).distance_km = 1001
  /\ Val(Val(direct_call).returned) # "sea_only"

\* the direct call built a land-sea-land route that has a sea leg
LandSeaLandWithSeaLeg ==
  /\ ~IsNone(direct_call)
  /\ Val(direct_call).builder = "_create_land_sea_land_route"
  /\ ~Val(direct_call).raised
  /\ \E i \in 1..Len(Val(direct_call).returned) : Val(direct_call).returned[i].type = SEA

\* C28: in every land-sea-land route with a sea leg the port chosen for the
\* destination lies in a country other than the origin port's, so the sea
\* leg joins two distinct registry entries, even when the registry port
\* nearest to the destination is in the origin port's country.
C28_SeaLegJoinsTwoCountries ==
  LandSeaLandWithSeaLeg
  => LET origin_port_data == Val(direct_call).found.origin_port_data
         destination_port_data == Val(direct_call).found.destination_port_data
         returned == Val(direct_call).returned
     IN /\ ~IsNone(origin_port_data)
        /\ ~IsNone(destination_port_data)
        /\ Val(destination_port_data).country # Val(origin_port_data).country
        /\ Val(destination_port_data) # Val(origin_port_data)
        /\ Len(returned) = 3
        /\ returned[2].type = SEA
        /\ returned[2].origin = PortCoordinate(Val(origin_port_data))
        /\ returned[2].destination = PortCoordinate(Val(destination_port_data))

\* the registry port nearest to the destination is in the origin port's
\* country, and the sea leg ends at another port, of another country
C28_Witness ==
  /\ LandSeaLandWithSeaLeg
  /\ ports = MAJOR_PORTS
  /\ Val(direct_call).origin # Val(direct_call).destination
  /\ \E k, m \in 1..Len(ports) :
       /\ FirstNearest(Val(direct_call).origin, 1..Len(ports), k)
       /\ FirstNearest(Val(direct_call).destination, 1..Len(ports), m)
       /\ ports[m].country = ports[k].country
       /\ Val(Val(direct_call).found.origin_port_data) = ports[k]
       /\ Val(Val(direct_call).found.destination_port_data) # ports[m]
       /\ Val(Val(direct_call).found.destination_port_data).country # ports[k].country

\* C29: a domestic pair (both countries resolved and equal) is never
\* classified as requiring a water crossing, whatever the coordinates; when
\* both countries are resolved the result is the country table's answer
\* alone, the longitude difference and the bounding boxes playing no part.
C29_ResolvedPairDecidedByTable ==
  DirectCallReturned("_requires_water_crossing")
  => /\ DomesticPair(Val(direct_call)) => Val(Val(direct_call).returned) = FALSE
     /\ (Truthy(Val(direct_call).origin_country)
           /\ Truthy(Val(direct_call).destination_country))
          => Val(Val(direct_call).returned) = WaterSeparatedPair(Val(direct_call))

\* a domestic pair with both points inside the Caribbean/Gulf boxes was
\* classified as needing no water crossing
C29_Witness ==
  /\ DirectCallReturned("_requires_water_crossing")
  /\ DomesticPair(Val(direct_call))
  /\ InCaribbeanBoxes(Val(direct_call).origin, Val(direct_call).destination)
  /\ Val(Val(direct_call).returned) = FALSE

\* C30: rules 1 to 6 of the mode cascade (a to f) are exhaustive: for every
\* distance and every combination of the boolean inputs
\* _determine_optimal_mode returns from one of them, and the final default
\* return (g) is never reached.
C30_DefaultReturnNeverReached ==
  DirectCallReturned("_determine_optimal_mode")
  => Val(Val(direct_call).reached)
       \in { "Rule 1", "Rule 2", "Rule 3", "Rule 4", "Rule 5", "Rule 6" }

\* a pair exactly 2500 km apart that no earlier rule takes returned from
\* Rule 6
C30_Witness ==
  /\ DirectCallReturned("_determine_optimal_mode")
  /\ Val(direct_call).distance_km = 2500
  /\ ~Val(direct_call).is_domestic
  /\ ~Val(direct_call).requires_water_crossing
  /\ ~Val(direct_call).origin_is_port
  /\ Val(Val(direct_call).reached) = "Rule 6"
====
